---- MODULE Spec2Model ----
(***************************************************************************)
(* OfficeGPT: the SmartSplit tax engine and the investment comparator of   *)
(* the server's route file, as a state machine.                            *)
(*                                                                         *)
(* Numbers.  The program computes in JavaScript numbers.  The model        *)
(* computes in decimal fixed point with 8 fractional digits, held as       *)
(* arbitrary-length naturals (TLC's own integers are 32 bits wide): a      *)
(* value is [neg, mag] with mag the little-endian base-10000 digits of     *)
(* |value| * 10^8.  Sums and differences are exact; a product is cut to 8  *)
(* fractional digits, which is exact for every product of the tax engine   *)
(* on whole-dollar amounts (at most 8 fractional digits arise).            *)
(*                                                                         *)
(* Strings.  A formatted string is a sequence of one-character strings     *)
(* ("$", ",", "-", "0".."9"); a fixed text of the program is a sequence    *)
(* holding that text as its only element.                                  *)
(***************************************************************************)
EXTENDS Integers, Sequences, FiniteSets, TLC

\* `const x = v; ...`: F of the value of v
Let(v, F(_)) == CHOOSE r \in {F(x) : x \in {v}} : TRUE

\* ------------------------------------------------------------------------
\* Natural numbers of any length: little-endian sequences of base-10000
\* digits, without leading (high) zeros.
\* ------------------------------------------------------------------------
Base == 10 ^ 4

RECURSIVE BStrip(_)
BStrip(a) ==
  IF a = <<>> THEN a
  ELSE IF a[Len(a)] = 0 THEN BStrip(SubSeq(a, 1, Len(a) - 1))
  ELSE a

RECURSIVE BOfInt(_)
BOfInt(n) ==
  IF n = 0 THEN <<>> ELSE <<n % Base>> \o BOfInt(n \div Base)

RECURSIVE BToInt(_)
BToInt(a) ==
  IF a = <<>> THEN 0 ELSE Head(a) + Base * BToInt(Tail(a))

RECURSIVE BAddC(_, _, _)
BAddC(a, b, c) ==
  IF a = <<>> /\ b = <<>> THEN (IF c = 0 THEN <<>> ELSE <<c>>)
  ELSE LET x == IF a = <<>> THEN 0 ELSE Head(a)
           y == IF b = <<>> THEN 0 ELSE Head(b)
           s == x + y + c
       IN  <<s % Base>> \o
           BAddC(IF a = <<>> THEN a ELSE Tail(a),
                 IF b = <<>> THEN b ELSE Tail(b), s \div Base)

BAdd(a, b) == BAddC(a, b, 0)

\* a - b for a >= b
RECURSIVE BSubB(_, _, _)
BSubB(a, b, c) ==
  IF a = <<>> THEN <<>>
  ELSE LET y == IF b = <<>> THEN 0 ELSE Head(b)
           d == Head(a) - y - c
       IN  <<IF d < 0 THEN d + Base ELSE d>> \o
           BSubB(Tail(a), IF b = <<>> THEN b ELSE Tail(b),
                 IF d < 0 THEN 1 ELSE 0)

BSub(a, b) == BStrip(BSubB(a, b, 0))

\* -1, 0, 1 as a < b, a = b, a > b
RECURSIVE BCmpTop(_, _, _)
BCmpTop(a, b, i) ==
  IF i = 0 THEN 0
  ELSE IF a[i] < b[i] THEN -1
  ELSE IF a[i] > b[i] THEN 1
  ELSE BCmpTop(a, b, i - 1)

BCmp(a, b) ==
  IF Len(a) < Len(b) THEN -1
  ELSE IF Len(a) > Len(b) THEN 1
  ELSE BCmpTop(a, b, Len(a))

\* a * k + c for a digit k
RECURSIVE BMulSmall(_, _, _)
BMulSmall(a, k, c) ==
  IF a = <<>> THEN (IF c = 0 THEN <<>> ELSE <<c>>)
  ELSE LET p == Head(a) * k + c
       IN  <<p % Base>> \o BMulSmall(Tail(a), k, p \div Base)

RECURSIVE BMulR(_, _)
BMulR(a, b) ==
  IF b = <<>> THEN <<>>
  ELSE BAdd(BMulSmall(a, Head(b), 0), <<0>> \o BMulR(a, Tail(b)))

BMul(a, b) == BStrip(BMulR(a, b))

\* a \div 10000^k
BShr(a, k) == IF Len(a) <= k THEN <<>> ELSE SubSeq(a, k + 1, Len(a))

\* the largest digit d in lo..hi with b * d <= a
RECURSIVE BQuotDigit(_, _, _, _)
BQuotDigit(a, b, lo, hi) ==
  IF lo = hi THEN lo
  ELSE IF BCmp(BStrip(BMulSmall(b, (lo + hi + 1) \div 2, 0)), a) <= 0
       THEN BQuotDigit(a, b, (lo + hi + 1) \div 2, hi)
       ELSE BQuotDigit(a, b, lo, ((lo + hi + 1) \div 2) - 1)

\* long division, b # 0: [q, r] with a = q * b + r and r < b (q may carry
\* high zeros)
RECURSIVE BDivMod(_, _)
BDivMod(a, b) ==
  IF a = <<>> THEN [q |-> <<>>, r |-> <<>>]
  ELSE Let(BDivMod(Tail(a), b), LAMBDA hi :
       Let(BStrip(<<Head(a)>> \o hi.r), LAMBDA cur :
       Let(BQuotDigit(cur, b, 0, Base - 1), LAMBDA d :
         [q |-> <<d>> \o hi.q, r |-> BSub(cur, BStrip(BMulSmall(b, d, 0)))])))

\* a \div b, b # 0
BDiv(a, b) == BStrip(BDivMod(a, b).q)

\* ------------------------------------------------------------------------
\* A JavaScript number: [neg, mag], mag = |value| * 10^8.  Infinity (the
\* last bracket's max) is the one value whose mag is <<-1>>.
\* ------------------------------------------------------------------------
Mk(neg, mag) == [neg |-> neg /\ mag # <<>>, mag |-> mag]

Zero == Mk(FALSE, <<>>)

Infinity == [neg |-> FALSE, mag |-> <<-1>>]

\* NaN is the one value whose mag is <<-2>>
NaN == [neg |-> FALSE, mag |-> <<-2>>]

\* the number n / 10^8, n >= 0
NumRaw(n) == Mk(FALSE, BOfInt(n))

\* the integer n
NumInt(n) ==
  IF n = 0 THEN Zero
  ELSE Mk(n < 0, <<0, 0>> \o BOfInt(IF n < 0 THEN -n ELSE n))

\* the decimal m / 10^d, 0 <= d <= 8
Dec(m, d) ==
  Mk(m < 0, BMul(BOfInt(IF m < 0 THEN -m ELSE m), BOfInt(10 ^ (8 - d))))

NumNeg(x) == Mk(~x.neg, x.mag)

NumAdd(x, y) ==
  IF x = Infinity \/ y = Infinity THEN Infinity
  ELSE IF x.neg = y.neg THEN Mk(x.neg, BAdd(x.mag, y.mag))
  ELSE IF BCmp(x.mag, y.mag) >= 0 THEN Mk(x.neg, BSub(x.mag, y.mag))
  ELSE Mk(y.neg, BSub(y.mag, x.mag))

NumSub(x, y) == NumAdd(x, NumNeg(y))

\* x * y, cut to 8 fractional digits
NumMul(x, y) ==
  IF x = NaN \/ y = NaN THEN NaN
  ELSE IF x = Infinity \/ y = Infinity
       THEN (IF x = Zero \/ y = Zero THEN NaN ELSE Infinity)
  ELSE Mk(x.neg # y.neg, BShr(BMul(x.mag, y.mag), 2))

\* x / y for finite x and y, cut to 8 fractional digits: 0 / 0 is NaN and
\* any other x / 0 is infinite
NumDiv(x, y) ==
  IF y = Zero THEN (IF x = Zero THEN NaN ELSE Infinity)
  ELSE Mk(x.neg # y.neg, BDiv(<<0, 0>> \o x.mag, y.mag))

\* -1, 0, 1 as x < y, x = y, x > y
NumCmp(x, y) ==
  IF x = y THEN 0
  ELSE IF y = Infinity THEN -1
  ELSE IF x = Infinity THEN 1
  ELSE IF x.neg /\ ~y.neg THEN -1
  ELSE IF ~x.neg /\ y.neg THEN 1
  ELSE IF x.neg THEN BCmp(y.mag, x.mag)
  ELSE BCmp(x.mag, y.mag)

NumLe(x, y) == NumCmp(x, y) <= 0

NumLt(x, y) == NumCmp(x, y) < 0

MathMin(x, y) == IF NumLe(x, y) THEN x ELSE y

MathMax(x, y) == IF NumLe(x, y) THEN y ELSE x

\* the fraction digits of |x|, as an integer below 10^8
FracOf(x) == BToInt(SubSeq(x.mag, 1, IF Len(x.mag) < 2 THEN Len(x.mag) ELSE 2))

\* Math.round: the nearest integer, a tie going up
MathRound(x) ==
  LET ip == BShr(x.mag, 2)
      up == IF x.neg THEN FracOf(x) > 50000000 ELSE FracOf(x) >= 50000000
      m  == IF up THEN BAdd(ip, <<1>>) ELSE ip
  IN  Mk(x.neg, IF m = <<>> THEN <<>> ELSE <<0, 0>> \o m)

\* an integer-valued number as a TLA+ integer
IntOf(x) ==
  LET m == BToInt(BShr(x.mag, 2)) IN IF x.neg THEN -m ELSE m

\* ------------------------------------------------------------------------
\* Number formatting and parsing (the en-US default locale of the runtime)
\* ------------------------------------------------------------------------
DigitChars == <<"0", "1", "2", "3", "4", "5", "6", "7", "8", "9">>

IsDigit(c) == \E i \in 1..10 : DigitChars[i] = c

DigitValue(c) == (CHOOSE i \in 1..10 : DigitChars[i] = c) - 1

\* the decimal digits of a natural number, most significant first
RECURSIVE DigitsOf(_)
DigitsOf(n) ==
  IF n < 10 THEN <<DigitChars[n + 1]>>
  ELSE DigitsOf(n \div 10) \o <<DigitChars[(n % 10) + 1]>>

\* a comma before every group of three digits, counted from the right
RECURSIVE GroupThousands(_)
GroupThousands(ds) ==
  IF Len(ds) <= 3 THEN ds
  ELSE GroupThousands(SubSeq(ds, 1, Len(ds) - 3)) \o <<",">> \o
       SubSeq(ds, Len(ds) - 2, Len(ds))

RECURSIVE StripTrailingZeros(_)
StripTrailingZeros(ds) ==
  IF ds # <<>> /\ ds[Len(ds)] = "0"
  THEN StripTrailingZeros(SubSeq(ds, 1, Len(ds) - 1)) ELSE ds

\* Number.prototype.toLocaleString(): grouped integer digits and at most
\* three fraction digits
ToLocaleString(x) ==
  IF x = NaN THEN <<"NaN">>
  ELSE IF x = Infinity THEN <<"Infinity">>
  ELSE
  LET th    == (FracOf(x) + 50000) \div 100000
      carry == IF th = 1000 THEN 1 ELSE 0
      ip    == BToInt(BShr(x.mag, 2)) + carry
      fr    == IF th = 1000 THEN 0 ELSE th
      frds  == StripTrailingZeros(
                 <<DigitChars[(fr \div 100) + 1], DigitChars[((fr \div 10) % 10) + 1],
                   DigitChars[(fr % 10) + 1]>>)
  IN  (IF x.neg THEN <<"-">> ELSE <<>>) \o GroupThousands(DigitsOf(ip)) \o
      (IF frds = <<>> THEN <<>> ELSE <<".">> \o frds)

\* Number.prototype.toFixed(1): the nearest tenth, a tie going away from 0,
\* without grouping
ToFixed1(x) ==
  IF x = NaN THEN <<"NaN">>
  ELSE IF x = Infinity THEN <<"Infinity">>
  ELSE Let(BToInt(BDiv(BAdd(x.mag, BOfInt(5000000)), BOfInt(10000000))),
           LAMBDA tenths :
         (IF x.neg THEN <<"-">> ELSE <<>>)
         \o DigitsOf(tenths \div 10) \o <<".", DigitChars[(tenths % 10) + 1]>>)

\* `${(x * 100).toFixed(1)}%`
Percent(x) == ToFixed1(NumMul(x, NumInt(100))) \o <<"%">>

\* `$${x.toLocaleString()}`
Dollars(x) == <<"$">> \o ToLocaleString(x)

\* s.replace(/[$,]/g, '')
RECURSIVE StripDollarComma(_)
StripDollarComma(s) ==
  IF s = <<>> THEN s
  ELSE IF Head(s) \in {"$", ","} THEN StripDollarComma(Tail(s))
  ELSE <<Head(s)>> \o StripDollarComma(Tail(s))

\* the length of the longest prefix of digits
RECURSIVE DigitRun(_)
DigitRun(s) ==
  IF s = <<>> \/ ~IsDigit(Head(s)) THEN 0 ELSE 1 + DigitRun(Tail(s))

\* the natural number a sequence of digits spells
RECURSIVE NatOfDigits(_)
NatOfDigits(ds) ==
  IF ds = <<>> THEN <<>>
  ELSE BAdd(BMulSmall(NatOfDigits(SubSeq(ds, 1, Len(ds) - 1)), 10, 0),
            BOfInt(DigitValue(ds[Len(ds)])))

\* parseFloat: an optional sign, digits, an optional fraction; whatever
\* follows is ignored, and a text that starts with no number is NaN
ParseFloat(s) ==
  LET neg  == s # <<>> /\ Head(s) = "-"
      body == IF s # <<>> /\ Head(s) \in {"-", "+"} THEN Tail(s) ELSE s
      n    == DigitRun(body)
      rest == SubSeq(body, n + 1, Len(body))
      m    == IF rest # <<>> /\ Head(rest) = "." THEN DigitRun(Tail(rest)) ELSE 0
      fds  == SubSeq(rest, 2, 1 + (IF m > 8 THEN 8 ELSE m))
      pad  == [i \in 1..(8 - Len(fds)) |-> "0"]
  IN  IF n = 0 /\ m = 0 THEN NaN
      ELSE Mk(neg, BStrip(NatOfDigits(SubSeq(body, 1, n) \o fds \o pad)))

\* ------------------------------------------------------------------------
\* Errors and the catch block of the calculation routes
\* ------------------------------------------------------------------------
\* error.message.includes(t): a message is a sequence of pieces of text
Includes(message, t) == \E i \in 1..Len(message) : message[i] = t

\* new Error(message)
ErrorOf(message) == [isError |-> TRUE, message |-> message]

\* the catch block of the three calculation routes
CatchResponse(error, invalidData, unexpected) ==
  IF error.isError
  THEN IF Includes(error.message, "parse") \/ Includes(error.message, "JSON")
       THEN [status |-> 500, error |-> <<invalidData>>]
       ELSE [status |-> 400, error |-> error.message]
  ELSE [status |-> 500, error |-> <<unexpected>>]

\* schema.parse(body): <<>> when the body is accepted, else the message of
\* the error that is thrown
ValidationErrorsFor(body, schema, messages) ==
  IF body \in schema THEN {<<>>} ELSE messages

\* ------------------------------------------------------------------------
\* TAX_RATES: the 2024 constants (Ontario)
\* ------------------------------------------------------------------------
SMALL_BUSINESS_RATE == Dec(122, 3)

PERSONAL_BRACKETS ==
  << [min |-> NumInt(0),      max |-> NumInt(51446),  rate |-> Dec(2005, 4)],
     [min |-> NumInt(51447),  max |-> NumInt(55867),  rate |-> Dec(2415, 4)],
     [min |-> NumInt(55868),  max |-> NumInt(102894), rate |-> Dec(2965, 4)],
     [min |-> NumInt(102895), max |-> NumInt(111733), rate |-> Dec(3166, 4)],
     [min |-> NumInt(111734), max |-> NumInt(150000), rate |-> Dec(3716, 4)],
     [min |-> NumInt(150001), max |-> NumInt(173205), rate |-> Dec(3816, 4)],
     [min |-> NumInt(173206), max |-> NumInt(220000), rate |-> Dec(4116, 4)],
     [min |-> NumInt(220001), max |-> NumInt(246752), rate |-> Dec(4216, 4)],
     [min |-> NumInt(246753), max |-> Infinity,       rate |-> Dec(4953, 4)] >>

CPP_YMPE == 68500
CPP_BASIC_EXEMPTION == 3500
CPP_EMPLOYEE_RATE == Dec(595, 4)
CPP_YAMPE == 73200
CPP_CPP2_RATE == Dec(4, 2)

EI_MIE == 63200
EI_EMPLOYEE_RATE == Dec(166, 4)
EI_EMPLOYER_RATE == Dec(2324, 5)

DIVIDEND_GROSS_UP == Dec(15, 2)
DIVIDEND_FEDERAL_DTC == Dec(90301, 6)
DIVIDEND_ONTARIO_DTC == Dec(29863, 6)

\* the object as a whole
TAX_RATES ==
  [SMALL_BUSINESS_RATE |-> SMALL_BUSINESS_RATE,
   PERSONAL_BRACKETS |-> PERSONAL_BRACKETS,
   CPP |-> [YMPE |-> CPP_YMPE, BASIC_EXEMPTION |-> CPP_BASIC_EXEMPTION,
            EMPLOYEE_RATE |-> CPP_EMPLOYEE_RATE, YAMPE |-> CPP_YAMPE,
            CPP2_RATE |-> CPP_CPP2_RATE],
   EI |-> [MIE |-> EI_MIE, EMPLOYEE_RATE |-> EI_EMPLOYEE_RATE,
           EMPLOYER_RATE |-> EI_EMPLOYER_RATE],
   DIVIDEND |-> [GROSS_UP |-> DIVIDEND_GROSS_UP,
                 FEDERAL_DTC |-> DIVIDEND_FEDERAL_DTC,
                 ONTARIO_DTC |-> DIVIDEND_ONTARIO_DTC]]

\* ------------------------------------------------------------------------
\* calculatePersonalTax
\* ------------------------------------------------------------------------
\* a width that leaves out the + 1
BracketWidthNoPlusOne(bracket) == NumSub(bracket.max, bracket.min)

\* bracket.max - bracket.min + 1
BracketWidth(bracket) == NumAdd(NumSub(bracket.max, bracket.min), NumInt(1))

\* the for loop over the brackets, from bracket i on
RECURSIVE PersonalTaxLoop(_, _, _)
PersonalTaxLoop(i, tax, remainingIncome) ==
  IF i > Len(PERSONAL_BRACKETS) \/ NumLe(remainingIncome, Zero) THEN tax
  ELSE LET bracket == PERSONAL_BRACKETS[i]
           taxableInThisBracket == MathMin(remainingIncome, BracketWidth(bracket))
       IN  PersonalTaxLoop(i + 1,
             NumAdd(tax, NumMul(taxableInThisBracket, bracket.rate)),
             NumSub(remainingIncome, taxableInThisBracket))

\* the loop without its `if (remainingIncome <= 0) break`
RECURSIVE PersonalTaxLoopNoBreak(_, _, _)
PersonalTaxLoopNoBreak(i, tax, remainingIncome) ==
  IF i > Len(PERSONAL_BRACKETS) THEN tax
  ELSE LET bracket == PERSONAL_BRACKETS[i]
           taxableInThisBracket == MathMin(remainingIncome, BracketWidth(bracket))
       IN  PersonalTaxLoopNoBreak(i + 1,
             NumAdd(tax, NumMul(taxableInThisBracket, bracket.rate)),
             NumSub(remainingIncome, taxableInThisBracket))

calculatePersonalTaxNoBreak(taxableIncome) ==
  PersonalTaxLoopNoBreak(1, Zero, taxableIncome)

calculatePersonalTax(taxableIncome) == PersonalTaxLoop(1, Zero, taxableIncome)

\* ------------------------------------------------------------------------
\* calculateCPPContributions, calculateEIContributions
\* ------------------------------------------------------------------------
\* CPP2 earnings without their cap at YAMPE - YMPE
calculateCPPContributionsUncapped(salary) ==
  LET contributoryEarnings ==
        MathMin(MathMax(NumSub(salary, NumInt(CPP_BASIC_EXEMPTION)), Zero),
                NumSub(NumInt(CPP_YMPE), NumInt(CPP_BASIC_EXEMPTION)))
      cpp1 == NumMul(contributoryEarnings, CPP_EMPLOYEE_RATE)
      cpp2Earnings == MathMax(NumSub(salary, NumInt(CPP_YMPE)), Zero)
      totalEmployee == NumAdd(cpp1, NumMul(cpp2Earnings, CPP_CPP2_RATE))
  IN  [employee |-> totalEmployee, employer |-> totalEmployee]

calculateCPPContributions(salary) ==
  LET contributoryEarnings ==
        MathMin(MathMax(NumSub(salary, NumInt(CPP_BASIC_EXEMPTION)), Zero),
                NumSub(NumInt(CPP_YMPE), NumInt(CPP_BASIC_EXEMPTION)))
      cpp1 == NumMul(contributoryEarnings, CPP_EMPLOYEE_RATE)
      cpp2Earnings ==
        MathMin(MathMax(NumSub(salary, NumInt(CPP_YMPE)), Zero),
                NumSub(NumInt(CPP_YAMPE), NumInt(CPP_YMPE)))
      cpp2 == NumMul(cpp2Earnings, CPP_CPP2_RATE)
      totalEmployee == NumAdd(cpp1, cpp2)
  IN  [employee |-> totalEmployee, employer |-> totalEmployee]

\* insurable earnings without their cap at MIE
calculateEIContributionsUncapped(salary) ==
  [employee |-> NumMul(salary, EI_EMPLOYEE_RATE),
   employer |-> NumMul(salary, EI_EMPLOYER_RATE)]

calculateEIContributions(salary) ==
  LET insurable == MathMin(salary, NumInt(EI_MIE))
  IN  [employee |-> NumMul(insurable, EI_EMPLOYEE_RATE),
       employer |-> NumMul(insurable, EI_EMPLOYER_RATE)]

\* ------------------------------------------------------------------------
\* calculateDividendTax
\* ------------------------------------------------------------------------
\* the tax on the whole income instead of the increment over otherIncome
calculateDividendTaxNotMarginal(dividend, otherIncome) ==
  LET grossedUpDividend == NumAdd(dividend, NumMul(dividend, DIVIDEND_GROSS_UP))
      grossTax == calculatePersonalTax(NumAdd(otherIncome, grossedUpDividend))
      totalDTC == NumAdd(NumMul(grossedUpDividend, DIVIDEND_FEDERAL_DTC),
                         NumMul(grossedUpDividend, DIVIDEND_ONTARIO_DTC))
  IN  [tax |-> MathMax(NumSub(grossTax, totalDTC), Zero),
       grossedUp |-> grossedUpDividend]

calculateDividendTax(dividend, otherIncome) ==
  LET grossUp == NumMul(dividend, DIVIDEND_GROSS_UP)
      grossedUpDividend == NumAdd(dividend, grossUp)
      totalTaxableIncome == NumAdd(otherIncome, grossedUpDividend)
      grossTax == NumSub(calculatePersonalTax(totalTaxableIncome),
                         calculatePersonalTax(otherIncome))
      federalDTC == NumMul(grossedUpDividend, DIVIDEND_FEDERAL_DTC)
      ontarioDTC == NumMul(grossedUpDividend, DIVIDEND_ONTARIO_DTC)
      totalDTC == NumAdd(federalDTC, ontarioDTC)
  IN  [tax |-> MathMax(NumSub(grossTax, totalDTC), Zero),
       grossedUp |-> grossedUpDividend]

\* ------------------------------------------------------------------------
\* calculateSmartSplitStrategy
\* ------------------------------------------------------------------------
\* the corporate income without its floor at 0
corporateIncomeUnfloored(netBusinessIncome, totalSalaryExpense) ==
  NumSub(netBusinessIncome, totalSalaryExpense)

\* Math.max(netBusinessIncome - totalSalaryExpense, 0)
corporateIncomeAfterSalary(netBusinessIncome, totalSalaryExpense) ==
  MathMax(NumSub(netBusinessIncome, totalSalaryExpense), Zero)

\* the effective rate without the guard
effectivePersonalRateUnguarded(personalTaxBurden, personalWithdrawal) ==
  NumMul(NumDiv(personalTaxBurden, personalWithdrawal), NumInt(100))

\* the effective tax rate on the personal withdrawal, in percent
effectivePersonalRate(personalTaxBurden, personalWithdrawal) ==
  IF NumLt(Zero, personalWithdrawal)
  THEN NumMul(NumDiv(personalTaxBurden, personalWithdrawal), NumInt(100))
  ELSE Zero

\* the payroll taxes without the employer's share
totalPayrollTaxesEmployeeOnly(cpp, ei) ==
  NumAdd(cpp.employee, ei.employee)

\* cpp.employee + ei.employee + cpp.employer + ei.employer
totalPayrollTaxes(cpp, ei) ==
  NumAdd(NumAdd(NumAdd(cpp.employee, ei.employee), cpp.employer), ei.employer)

\* the amounts of one split, before formatting
SmartSplitAmounts(salary, dividend, netBusinessIncome) ==
  Let(calculateCPPContributions(salary), LAMBDA cpp :
  Let(calculateEIContributions(salary), LAMBDA ei :
  Let(calculatePersonalTax(salary), LAMBDA personalIncomeTax :
  Let(calculateDividendTax(dividend, salary), LAMBDA dividendResult :
  Let(NumAdd(NumAdd(salary, cpp.employer), ei.employer), LAMBDA totalSalaryExpense :
  Let(corporateIncomeAfterSalary(netBusinessIncome, totalSalaryExpense),
      LAMBDA corpIncome :
  Let(NumMul(corpIncome, SMALL_BUSINESS_RATE), LAMBDA corporateTax :
  Let(NumAdd(personalIncomeTax, dividendResult.tax), LAMBDA totalPersonalTax :
  Let(totalPayrollTaxes(cpp, ei), LAMBDA payrollTaxes :
  Let(NumAdd(NumAdd(NumAdd(personalIncomeTax, dividendResult.tax), cpp.employee),
             ei.employee),
      LAMBDA personalTaxBurden :
    [salary |-> salary, dividend |-> dividend, cpp |-> cpp, ei |-> ei,
     personalIncomeTax |-> personalIncomeTax, dividendTax |-> dividendResult.tax,
     corporateTax |-> corporateTax,
     retainedEarnings |-> NumSub(corpIncome, corporateTax),
     rrspRoom |-> MathMin(NumMul(salary, Dec(18, 2)), NumInt(31560)),
     totalPersonalTax |-> totalPersonalTax,
     totalTax |-> NumAdd(NumAdd(totalPersonalTax, payrollTaxes), corporateTax),
     netCash |-> NumSub(NumAdd(salary, dividend), personalTaxBurden),
     personalTaxBurden |-> personalTaxBurden,
     effectivePersonalRate |->
       effectivePersonalRate(personalTaxBurden, NumAdd(salary, dividend))]))))))))))

\* the returned record: every amount as a formatted string
calculateSmartSplitStrategy(salary, dividend, netBusinessIncome) ==
  Let(SmartSplitAmounts(salary, dividend, netBusinessIncome), LAMBDA a :
    [salary |-> Dollars(salary),
     dividends |-> Dollars(dividend),
     corporateTax |-> Dollars(MathRound(a.corporateTax)),
     personalTax |->
       Dollars(MathRound(NumAdd(NumAdd(a.totalPersonalTax, a.cpp.employee),
                                a.ei.employee)))
       \o <<" (Tax: ">> \o Dollars(MathRound(a.totalPersonalTax))
       \o <<", CPP: ">> \o Dollars(MathRound(a.cpp.employee))
       \o <<", EI: ">> \o Dollars(MathRound(a.ei.employee)) \o <<")">>,
     totalTax |-> Dollars(MathRound(a.totalTax)),
     netIncome |-> Dollars(MathRound(a.netCash)),
     effectiveTaxRate |-> ToFixed1(a.effectivePersonalRate) \o <<"%">>,
     rrspRoom |-> Dollars(MathRound(a.rrspRoom)),
     cppContributions |-> Dollars(MathRound(NumAdd(a.cpp.employee, a.cpp.employer))),
     corporateRetained |->
       Dollars(MathRound(MathMax(NumSub(a.retainedEarnings, dividend), Zero)))])

\* ------------------------------------------------------------------------
\* POST /api/tax-calculation: the four fixed splits
\* ------------------------------------------------------------------------
Row(name, r) == [strategy |-> name] @@ r

\* the rows with the dividend row first
TaxStrategiesDividendFirst(revenue, expensesPercentage, withdrawalAmount) ==
  Let(NumSub(revenue, NumMul(NumMul(revenue, expensesPercentage), Dec(1, 2))),
      LAMBDA netBusinessIncome :
      << Row("100% Dividend",
             calculateSmartSplitStrategy(Zero, withdrawalAmount, netBusinessIncome)),
         Row("100% Salary",
             calculateSmartSplitStrategy(withdrawalAmount, Zero, netBusinessIncome)) >>)

TaxStrategies(revenue, expensesPercentage, withdrawalAmount) ==
  Let(NumMul(NumMul(revenue, expensesPercentage), Dec(1, 2)), LAMBDA expenses :
  Let(NumSub(revenue, expenses), LAMBDA netBusinessIncome :
  Let(MathRound(NumMul(withdrawalAmount, Dec(5, 1))), LAMBDA half :
      << Row("100% Salary",
             calculateSmartSplitStrategy(withdrawalAmount, Zero, netBusinessIncome)),
         Row("100% Dividend",
             calculateSmartSplitStrategy(Zero, withdrawalAmount, netBusinessIncome)),
         Row("50% Salary / 50% Dividend",
             calculateSmartSplitStrategy(half, half, netBusinessIncome)),
         Row("Optimal Mix (65% Salary / 35% Dividend)",
             calculateSmartSplitStrategy(
               MathRound(NumMul(withdrawalAmount, Dec(65, 2))),
               MathRound(NumMul(withdrawalAmount, Dec(35, 2))),
               netBusinessIncome)) >>)))

\* the route: validationError is the message schema.parse throws on the
\* body (<<>> when it accepts it); storage tells which storage call, if any,
\* rejects and with what.  The rows are computed before storage is asked,
\* and returned only when the calculation has been stored.
TaxCalculationResponse(revenue, expensesPercentage, withdrawalAmount, validationError, storage) ==
  IF validationError # <<>>
  THEN CatchResponse(
         ErrorOf(validationError),
         "Failed to process tax calculation. The AI service returned invalid data. Please try again.",
         "An unexpected error occurred during tax calculation.")
  ELSE IF storage.failsAt # "none"
  THEN CatchResponse(
         storage.thrown,
         "Failed to process tax calculation. The AI service returned invalid data. Please try again.",
         "An unexpected error occurred during tax calculation.")
  ELSE [status |-> 200,
        result |-> TaxStrategies(revenue, expensesPercentage, withdrawalAmount)]

\* ------------------------------------------------------------------------
\* calculateInvestmentStrategies
\* ------------------------------------------------------------------------
NotAvailable == <<"Not Available">>

\* s.replace(t, ''): s without the first t
RECURSIVE RemoveFirst(_, _)
RemoveFirst(s, t) ==
  IF s = <<>> THEN s
  ELSE IF Head(s) = t THEN Tail(s)
  ELSE <<Head(s)>> \o RemoveFirst(Tail(s), t)

\* parseInt of a text that starts with digits
ParseInt(s) ==
  IF DigitRun(s) = 0 THEN NaN ELSE BToInt(NatOfDigits(SubSeq(s, 1, DigitRun(s))))

\* 107^n
RECURSIVE BPow107(_)
BPow107(n) == IF n = 0 THEN <<1>> ELSE BMulSmall(BPow107(n - 1), 107, 0)

\* x * Math.pow(1.07, years), cut to 8 fractional digits
TimesPow(x, years) ==
  Let(BMul(x.mag, BPow107(years)), LAMBDA m :
    Mk(x.neg, IF years % 2 = 0 THEN BShr(m, years \div 2)
              ELSE BShr(BMulSmall(m, 100, 0), (years + 1) \div 2)))

getDividendRate(income, isRetirement) ==
  IF isRetirement THEN
    CASE income = "Under $50K" -> Dec(10, 2)
      [] income = "$50-100K"   -> Dec(2028, 4)
      [] income = "$100-200K"  -> Dec(30, 2)
      [] income = "Over $200K" -> Dec(35, 2)
      [] OTHER                 -> Dec(2028, 4)
  ELSE
    CASE income = "Under $50K" -> Dec(15, 2)
      [] income = "$50-100K"   -> Dec(25, 2)
      [] income = "$100-200K"  -> Dec(39, 2)
      [] income = "Over $200K" -> Dec(45, 2)
      [] OTHER                 -> Dec(39, 2)

getPersonalTaxRate(income) ==
  CASE income = "Under $50K" -> Dec(20, 2)
    [] income = "$50-100K"   -> Dec(2965, 4)
    [] income = "$100-200K"  -> Dec(35, 2)
    [] income = "Over $200K" -> Dec(45, 2)
    [] OTHER                 -> Dec(2965, 4)

getRrspRefundRate(income) ==
  CASE income = "Under $50K" -> Dec(20, 2)
    [] income = "$50-100K"   -> Dec(35, 2)
    [] income = "$100-200K"  -> Dec(4116, 4)
    [] income = "Over $200K" -> Dec(50, 2)
    [] OTHER                 -> Dec(4116, 4)

\* Strategy 1: Corporate Investment
CorporateStrategy(corpAmount, years, retirementDivRate) ==
  Let(TimesPow(corpAmount, years), LAMBDA corpFinalValue :
  Let(NumSub(corpFinalValue, corpAmount), LAMBDA corpGains :
  Let(NumMul(corpGains, Dec(5, 1)), LAMBDA corpTaxableGains :
  Let(NumMul(corpTaxableGains, Dec(5017, 4)), LAMBDA corpPassiveTax :
  Let(MathMin(NumMul(corpTaxableGains, Dec(3067, 4)),
              NumMul(corpFinalValue, Dec(3833, 4))), LAMBDA dividendRefund :
  Let(NumSub(corpPassiveTax, dividendRefund), LAMBDA netCorpTax :
  Let(NumAdd(NumSub(corpFinalValue, netCorpTax), dividendRefund),
      LAMBDA availableForDividend :
  Let(NumMul(availableForDividend, retirementDivRate), LAMBDA personalDivTax :
    [strategy |-> "Corporate Investment",
     initialInvestment |-> Dollars(corpAmount),
     finalValue |-> Dollars(MathRound(corpFinalValue)),
     totalTaxPaid |->
       Dollars(MathRound(NumAdd(netCorpTax, personalDivTax)))
       \o <<" (Passive: ">> \o Dollars(MathRound(netCorpTax))
       \o <<" + Dividend: ">> \o Dollars(MathRound(personalDivTax)) \o <<")">>,
     finalCashInPocket |->
       Dollars(MathRound(NumSub(availableForDividend, personalDivTax))),
     effectiveTaxRate |->
       Percent(NumDiv(NumAdd(netCorpTax, personalDivTax), corpGains)),
     auditRisk |-> "5-10%"]))))))))

\* Strategy 2: Personal Investment
PersonalStrategy(corpAmount, years, currentDivRate, personalTaxRate) ==
  Let(NumMul(corpAmount, currentDivRate), LAMBDA extractionTax :
  Let(NumSub(corpAmount, extractionTax), LAMBDA personalInvestment :
  Let(TimesPow(personalInvestment, years), LAMBDA personalFinalValue :
  Let(NumSub(personalFinalValue, personalInvestment), LAMBDA personalGains :
  Let(NumMul(NumMul(personalGains, Dec(5, 1)), personalTaxRate),
      LAMBDA personalCapGainsTax :
    [strategy |-> "Personal Investment",
     initialInvestment |-> Dollars(MathRound(personalInvestment)),
     finalValue |-> Dollars(MathRound(personalFinalValue)),
     totalTaxPaid |-> Dollars(MathRound(NumAdd(extractionTax, personalCapGainsTax))),
     finalCashInPocket |->
       Dollars(MathRound(NumSub(personalFinalValue, personalCapGainsTax))),
     effectiveTaxRate |->
       Percent(NumDiv(NumAdd(extractionTax, personalCapGainsTax), personalGains)),
     auditRisk |-> "5%"])))))

\* the RRSP strategy whatever the room
RrspStrategyAlways(rrspAmount, rrspRoom, years, rrspRefundRate, personalTaxRate) ==
  Let(TimesPow(rrspAmount, years), LAMBDA rrspInitialValue :
  Let(NumMul(rrspAmount, rrspRefundRate), LAMBDA rrspRefund :
  Let(TimesPow(rrspRefund, years), LAMBDA refundFinalValue :
  Let(NumMul(rrspInitialValue, personalTaxRate), LAMBDA rrspWithdrawalTax :
  Let(NumMul(NumMul(NumSub(refundFinalValue, rrspRefund), Dec(5, 1)),
             personalTaxRate), LAMBDA refundCapGainsTax :
    [strategy |-> "RRSP Strategy",
     initialInvestment |->
       Dollars(rrspAmount) \o <<" (RRSP) + ">> \o Dollars(MathRound(rrspRefund))
       \o <<" (Refund)">>,
     finalValue |-> Dollars(MathRound(NumAdd(rrspInitialValue, refundFinalValue))),
     totalTaxPaid |-> Dollars(MathRound(NumAdd(rrspWithdrawalTax, refundCapGainsTax))),
     finalCashInPocket |->
       Dollars(MathRound(NumAdd(NumSub(rrspInitialValue, rrspWithdrawalTax),
                                NumSub(refundFinalValue, refundCapGainsTax)))),
     effectiveTaxRate |->
       Percent(NumDiv(NumAdd(rrspWithdrawalTax, refundCapGainsTax),
                      NumAdd(NumSub(rrspInitialValue, rrspAmount),
                             NumSub(refundFinalValue, rrspRefund)))),
     auditRisk |-> "2%"])))))

\* Strategy 3: RRSP Strategy (only if RRSP room available)
RrspStrategy(rrspAmount, rrspRoom, years, rrspRefundRate, personalTaxRate) ==
  IF NumLt(Zero, rrspRoom)
  THEN RrspStrategyAlways(rrspAmount, rrspRoom, years, rrspRefundRate,
                          personalTaxRate)
  ELSE [strategy |-> "RRSP Strategy",
        initialInvestment |-> NotAvailable,
        finalValue |-> NotAvailable,
        totalTaxPaid |-> NotAvailable,
        finalCashInPocket |-> NotAvailable,
        effectiveTaxRate |-> <<"N/A">>,
        auditRisk |-> "N/A"]

calculateInvestmentStrategies(input) ==
  Let(ParseInt(RemoveFirst(input.timeline, " years")), LAMBDA years :
  Let(getPersonalTaxRate(input.withdrawalIncomeLevel), LAMBDA personalTaxRate :
    << CorporateStrategy(input.investmentAmount, years,
                         getDividendRate(input.withdrawalIncomeLevel, TRUE)),
       PersonalStrategy(input.investmentAmount, years,
                        getDividendRate(input.currentIncomeLevel, FALSE),
                        personalTaxRate),
       RrspStrategy(MathMin(input.investmentAmount, input.rrspRoom), input.rrspRoom,
                    years, getRrspRefundRate(input.currentIncomeLevel),
                    personalTaxRate) >>))

\* ------------------------------------------------------------------------
\* Text returned by the AI service, and JSON.parse.  A text is a sequence of
\* tokens: the brackets, null, a string, the key of a member (followed by
\* the member's value), or prose that is no JSON at all.
\* ------------------------------------------------------------------------
Tok(t) == [t |-> t, text |-> ""]

Str(text) == [t |-> "string", text |-> text]

Key(name) == [t |-> "key", text |-> name]

\* JavaScript values: undefined, null, a string, an array, an object
Undefined == [type |-> "undefined", v |-> <<>>]

JsNull == [type |-> "null", v |-> <<>>]

JsString(text) == [type |-> "string", v |-> text]

JsArray(items) == [type |-> "array", v |-> items]

JsObject(props) == [type |-> "object", v |-> props]

SyntaxError == [ok |-> FALSE, next |-> 0, value |-> Undefined]

\* the value that starts at token i: [ok, next, value]
RECURSIVE ParseValue(_, _), ParseMembers(_, _, _), ParseItems(_, _, _)
ParseValue(t, i) ==
  IF i > Len(t) THEN SyntaxError
  ELSE IF t[i].t = "null" THEN [ok |-> TRUE, next |-> i + 1, value |-> JsNull]
  ELSE IF t[i].t = "string"
       THEN [ok |-> TRUE, next |-> i + 1, value |-> JsString(t[i].text)]
  ELSE IF t[i].t = "{" THEN ParseMembers(t, i + 1, <<>>)
  ELSE IF t[i].t = "[" THEN ParseItems(t, i + 1, <<>>)
  ELSE SyntaxError

\* the members of an object up to its closing brace; props holds
\* <<name, value>> pairs
ParseMembers(t, i, props) ==
  IF i > Len(t) THEN SyntaxError
  ELSE IF t[i].t = "}"
       THEN [ok |-> TRUE, next |-> i + 1, value |-> JsObject(props)]
  ELSE IF t[i].t = "key"
       THEN Let(ParseValue(t, i + 1), LAMBDA m :
              IF m.ok
              THEN ParseMembers(t, m.next, Append(props, <<t[i].text, m.value>>))
              ELSE SyntaxError)
  ELSE SyntaxError

\* the items of an array up to its closing bracket
ParseItems(t, i, items) ==
  IF i > Len(t) THEN SyntaxError
  ELSE IF t[i].t = "]"
       THEN [ok |-> TRUE, next |-> i + 1, value |-> JsArray(items)]
  ELSE Let(ParseValue(t, i), LAMBDA m :
         IF m.ok THEN ParseItems(t, m.next, Append(items, m.value))
         ELSE SyntaxError)

\* JSON.parse(text): [ok, value]; ok is FALSE when it throws a SyntaxError
JSONParse(text) ==
  Let(ParseValue(text, 1), LAMBDA r :
    IF r.ok /\ r.next = Len(text) + 1
    THEN [ok |-> TRUE, value |-> r.value]
    ELSE [ok |-> FALSE, value |-> Undefined])

\* value.name for an object (the last member of that name wins), undefined
\* for every other value that has properties
GetProp(value, name) ==
  IF value.type = "object" /\ \E k \in 1..Len(value.v) : value.v[k][1] = name
  THEN value.v[CHOOSE k \in 1..Len(value.v) :
                 /\ value.v[k][1] = name
                 /\ \A j \in (k + 1)..Len(value.v) : value.v[j][1] # name][2]
  ELSE Undefined

\* value[index], index counted from 0
GetIndex(value, index) ==
  IF value.type = "array" /\ index < Len(value.v) THEN value.v[index + 1]
  ELSE Undefined

\* reading a property of undefined or null throws a TypeError
HasProps(value) == value.type \notin {"undefined", "null"}

Truthy(value) ==
  /\ value.type \notin {"undefined", "null"}
  /\ ~(value.type = "string" /\ value.v = "")

\* ------------------------------------------------------------------------
\* POST /api/calculate-investment
\* ------------------------------------------------------------------------
StringList(texts) == JsArray([i \in 1..Len(texts) |-> JsString(texts[i])])

InsightObject(strategy, description, advantages, considerations, bestFor, craCompliance) ==
  JsObject(<< <<"strategy", JsString(strategy)>>,
              <<"description", JsString(description)>>,
              <<"advantages", StringList(advantages)>>,
              <<"considerations", StringList(considerations)>>,
              <<"bestFor", JsString(bestFor)>>,
              <<"craCompliance", JsString(craCompliance)>> >>)

\* the insights used when the AI content is not JSON
FallbackInsights ==
  JsArray(<<
    InsightObject("Corporate Investment",
      "Leverages tax deferral within the corporation while maintaining investment growth potential.",
      <<"Tax deferral benefits", "Dividend refund mechanism", "Flexible withdrawal timing">>,
      <<"Higher passive investment tax", "Dividend tax at withdrawal", "Complex tax calculations">>,
      "Business owners with stable corporate income seeking long-term growth",
      "Ensure proper passive income reporting and dividend refund calculations"),
    InsightObject("Personal Investment",
      "Immediate extraction for personal investment with capital gains treatment.",
      <<"Capital gains tax treatment", "Direct personal control", "Simpler tax structure">>,
      <<"Immediate dividend tax impact", "Reduced initial investment", "Higher current tax burden">>,
      "Individuals expecting lower future tax rates or needing immediate investment control",
      "Report dividend income and capital gains appropriately"),
    InsightObject("RRSP Strategy",
      "Maximizes registered account benefits with tax refund reinvestment.",
      <<"Tax-deferred growth", "Tax refund reinvestment", "Retirement income splitting potential">>,
      <<"RRSP withdrawal as income", "Contribution room limits", "Age-based withdrawal requirements">>,
      "High-income earners with available RRSP room seeking maximum tax efficiency",
      "Monitor RRSP contribution limits and mandatory withdrawal requirements") >>)

\* the texts a strategy gets where its insight has none
DefaultInsight ==
  [description |-> JsString("Strategic investment approach with tax optimization benefits."),
   advantages |-> StringList(<<"Tax efficiency", "Growth potential", "Strategic flexibility">>),
   considerations |-> StringList(<<"Tax implications", "Risk factors", "Implementation complexity">>),
   bestFor |-> JsString("Business owners seeking tax-efficient investment strategies"),
   craCompliance |-> JsString("Ensure compliance with CRA regulations and reporting requirements")]

\* JSON.parse(rawResponse).insights || [], or the fallback when JSON.parse
\* or the property read throws
ParseInsights(rawResponse) ==
  Let(JSONParse(rawResponse), LAMBDA parsedInsights :
    IF parsedInsights.ok /\ HasProps(parsedInsights.value)
    THEN Let(GetProp(parsedInsights.value, "insights"), LAMBDA insights :
           IF Truthy(insights) THEN insights ELSE JsArray(<<>>))
    ELSE FallbackInsights)

\* insight?.name || the default
NarrativeField(insight, name) ==
  Let(GetProp(insight, name), LAMBDA value :
    IF Truthy(value) THEN value ELSE DefaultInsight[name])

\* strategies.map(...): the computed fields, the narrative, an empty
\* recommendation
FinalStrategies(strategies, insights) ==
  [index \in 1..Len(strategies) |->
     Let(GetIndex(insights, index - 1), LAMBDA insight :
       strategies[index]
       @@ [description |-> NarrativeField(insight, "description"),
           advantages |-> NarrativeField(insight, "advantages"),
           considerations |-> NarrativeField(insight, "considerations"),
           bestFor |-> NarrativeField(insight, "bestFor"),
           craCompliance |-> NarrativeField(insight, "craCompliance"),
           riskLevel |-> IF strategies[index].auditRisk = "2%" THEN "Low"
                         ELSE IF strategies[index].auditRisk = "5%" THEN "Medium"
                         ELSE "Medium-High",
           recommendation |-> <<>>])]

Available(s) == s.finalCashInPocket # NotAvailable

Unavailable(s) == s.finalCashInPocket = NotAvailable

\* parseFloat(text.replace(/[$,]/g, ''))
CashOf(s) == ParseFloat(StripDollarComma(s))

\* the sort comparator taken the other way round: cashA - cashB
CompareAscending(a, b) ==
  NumSub(CashOf(a.finalCashInPocket), CashOf(b.finalCashInPocket))

\* the sort comparator: cashB - cashA
CompareByCash(a, b) ==
  NumSub(CashOf(b.finalCashInPocket), CashOf(a.finalCashInPocket))

\* Array.prototype.sort is stable: e goes before the first element that the
\* comparator puts after it
RECURSIVE InsertSorted(_, _)
InsertSorted(sorted, e) ==
  IF sorted = <<>> THEN <<e>>
  ELSE IF NumLt(Zero, CompareByCash(Head(sorted), e)) THEN <<e>> \o sorted
  ELSE <<Head(sorted)>> \o InsertSorted(Tail(sorted), e)

RECURSIVE SortByCash(_)
SortByCash(list) ==
  IF list = <<>> THEN <<>>
  ELSE InsertSorted(SortByCash(SubSeq(list, 1, Len(list) - 1)), list[Len(list)])

\* the source puts a star emoji in front of this text
Optimal == <<"OPTIMAL - Highest after-tax return for your situation">>

NoRoom == <<"Not applicable - No RRSP contribution room available">>

RecommendAvailable(availableStrategies) ==
  [index \in 1..Len(availableStrategies) |->
     [availableStrategies[index] EXCEPT !.recommendation =
        IF index = 1 THEN Optimal
        ELSE <<"Consider optimal strategy - potentially ">>
             \o Dollars(NumSub(CashOf(availableStrategies[1].finalCashInPocket),
                               CashOf(availableStrategies[index].finalCashInPocket)))
             \o <<" more after-tax cash">>]]

RecommendUnavailable(unavailableStrategies) ==
  [index \in 1..Len(unavailableStrategies) |->
     [unavailableStrategies[index] EXCEPT !.recommendation = NoRoom]]

SortedStrategies(finalStrategies) ==
  RecommendAvailable(SortByCash(SelectSeq(finalStrategies, Available)))
  \o RecommendUnavailable(SelectSeq(finalStrategies, Unavailable))

\* aiResponse.content || "{}"
RawResponse(aiResponse) ==
  IF aiResponse.content = <<>> THEN <<Tok("{"), Tok("}")>> ELSE aiResponse.content

\* the route once the AI service has answered: strategies are the ones
\* computed before it was asked
InvestmentNarrated(strategies, aiResponse) ==
  IF ~aiResponse.success
  THEN CatchResponse(
         ErrorOf(IF aiResponse.error = <<>> THEN <<"AI service failed">>
                 ELSE aiResponse.error),
         "Failed to process investment calculation. The AI service returned invalid data. Please try again.",
         "An unexpected error occurred during investment calculation.")
  ELSE [status |-> 200,
        body |-> SortedStrategies(
                   FinalStrategies(strategies,
                                   ParseInsights(RawResponse(aiResponse))))]

\* the route after validation: the strategies, the AI call, the ranking
InvestmentAnswer(input, aiResponse) ==
  Let(calculateInvestmentStrategies(input), LAMBDA strategies :
    InvestmentNarrated(strategies, aiResponse))

\* the response of the route: validationError is the message schema.parse
\* throws on the body, <<>> when it accepts it
CalculateInvestmentResponse(input, validationError, aiResponse) ==
  IF validationError # <<>>
  THEN CatchResponse(
         ErrorOf(validationError),
         "Failed to process investment calculation. The AI service returned invalid data. Please try again.",
         "An unexpected error occurred during investment calculation.")
  ELSE InvestmentAnswer(input, aiResponse)

\* ------------------------------------------------------------------------
\* POST /api/calculate-expenses
\* ------------------------------------------------------------------------
\* the positions <<i, j>> of a match of /\[\s*{[\s\S]*?}\s*\]/: "[" and "{"
\* at i, "}" and "]" at j
ArrayMatches(text) ==
  {m \in (1..Len(text)) \X (1..Len(text)) :
     /\ m[1] + 2 <= m[2] /\ m[2] + 1 <= Len(text)
     /\ text[m[1]].t = "[" /\ text[m[1] + 1].t = "{"
     /\ text[m[2]].t = "}" /\ text[m[2] + 1].t = "]"}

\* rawResponse.match(/\[\s*{[\s\S]*?}\s*\]/): the leftmost match, ended at
\* the first place it can end; <<>> when there is none
ArrayMatch(text) ==
  IF ArrayMatches(text) = {} THEN <<>>
  ELSE Let(CHOOSE m \in ArrayMatches(text) :
             \A n \in ArrayMatches(text) :
               m[1] < n[1] \/ (m[1] = n[1] /\ m[2] <= n[2]),
           LAMBDA m : SubSeq(text, m[1], m[2] + 1))

\* rawResponse.match(/{[\s\S]*}/): from the first "{" to the last "}"
ObjectMatch(text) ==
  Let({i \in 1..Len(text) : text[i].t = "{"}, LAMBDA opens :
  Let({j \in 1..Len(text) : text[j].t = "}"}, LAMBDA closes :
    IF opens = {} \/ closes = {} THEN <<>>
    ELSE Let(CHOOSE i \in opens : \A k \in opens : i <= k, LAMBDA i :
         Let(CHOOSE j \in closes : \A k \in closes : k <= j, LAMBDA j :
           IF i < j THEN SubSeq(text, i, j) ELSE <<>>))))

\* the message of the SyntaxError JSON.parse throws
SyntaxErrorMessage == <<"Unexpected token in ", "JSON", " at position 0">>

Thrown(message) == [ok |-> FALSE, error |-> ErrorOf(message), value |-> Undefined]

Parsed(value) == [ok |-> TRUE, error |-> ErrorOf(<<>>), value |-> value]

\* jsonObj.strategies || [jsonObj]
StrategiesOrWrapped(jsonObj) ==
  IF Truthy(GetProp(jsonObj, "strategies")) THEN GetProp(jsonObj, "strategies")
  ELSE JsArray(<<jsonObj>>)

\* the catch of the inner try: the first array in the text, else the widest
\* object, else an error; a JSON.parse that throws here is not caught
ExtractStrategies(rawResponse) ==
  IF ArrayMatch(rawResponse) # <<>>
  THEN Let(JSONParse(ArrayMatch(rawResponse)), LAMBDA r :
         IF r.ok THEN Parsed(r.value) ELSE Thrown(SyntaxErrorMessage))
  ELSE IF ObjectMatch(rawResponse) # <<>>
  THEN Let(JSONParse(ObjectMatch(rawResponse)), LAMBDA r :
         IF r.ok THEN Parsed(StrategiesOrWrapped(r.value))
         ELSE Thrown(SyntaxErrorMessage))
  ELSE Thrown(<<"No valid ", "JSON", " found in response">>)

\* the inner try: the strategies of the parsed text, a lone value wrapped
\* in a list
ParseStrategies(rawResponse) ==
  Let(JSONParse(rawResponse), LAMBDA r :
    IF r.ok /\ HasProps(r.value)
    THEN Parsed(IF Truthy(GetProp(r.value, "strategies"))
                THEN GetProp(r.value, "strategies")
                ELSE IF r.value.type # "array" THEN JsArray(<<r.value>>)
                ELSE r.value)
    ELSE ExtractStrategies(rawResponse))

\* expenseResultSchema.parse(value) accepts a list of strategy objects
expenseResultSchema(value) ==
  /\ value.type = "array"
  /\ \A i \in 1..Len(value.v) :
       /\ value.v[i].type = "object"
       /\ GetProp(value.v[i], "strategy").type = "string"
       /\ GetProp(value.v[i], "totalDeductions").type = "string"

\* the route after validation: the AI call, the parsing, the validation of
\* what was parsed
ExpensesAnswer(aiResponse) ==
  IF ~aiResponse.success
  THEN CatchResponse(
         ErrorOf(IF aiResponse.error = <<>> THEN <<"AI service failed">>
                 ELSE aiResponse.error),
         "Failed to process expense calculation. The AI service returned invalid data. Please try again.",
         "An unexpected error occurred during expense calculation.")
  ELSE Let(ParseStrategies(RawResponse(aiResponse)), LAMBDA parsedResult :
         IF ~parsedResult.ok
         THEN CatchResponse(
                parsedResult.error,
                "Failed to process expense calculation. The AI service returned invalid data. Please try again.",
                "An unexpected error occurred during expense calculation.")
         ELSE IF ~expenseResultSchema(parsedResult.value)
         THEN CatchResponse(
                ErrorOf(<<"Expected array of strategies">>),
                "Failed to process expense calculation. The AI service returned invalid data. Please try again.",
                "An unexpected error occurred during expense calculation.")
         ELSE [status |-> 200, strategies |-> parsedResult.value])

\* the response of the route: validationError is the message schema.parse
\* throws on the body, <<>> when it accepts it
CalculateExpensesResponse(validationError, aiResponse) ==
  IF validationError # <<>>
  THEN CatchResponse(
         ErrorOf(validationError),
         "Failed to process expense calculation. The AI service returned invalid data. Please try again.",
         "An unexpected error occurred during expense calculation.")
  ELSE ExpensesAnswer(aiResponse)

\* ------------------------------------------------------------------------
\* Bounds and the inputs drawn under them
\* ------------------------------------------------------------------------
\* how far around every threshold of a table the inputs are taken
Near == 2

\* the inputs also cover 0, GridStep, 2 * GridStep, ..., GridCount * GridStep
GridCount == 12

GridStep == 25000

\* how many stored calculations one run follows
MaxCalculations == 2

Grid == {k * GridStep : k \in 0..GridCount}

Around(ts) == {t + d : t \in ts, d \in (-Near)..Near}

BracketEdges ==
  {IntOf(PERSONAL_BRACKETS[i].min) : i \in 2..Len(PERSONAL_BRACKETS)}

Incomes == Around(BracketEdges \cup {0}) \cup Grid

Salaries ==
  Around({0, CPP_BASIC_EXEMPTION, EI_MIE, CPP_YMPE, CPP_YAMPE}) \cup Grid

Dividends == {0, 1, 20, 1000, 44736, 44737, 100000, 250000}

OtherIncomes == {n \in Incomes : n >= 0 /\ (n % GridStep = 0 \/ n % 2 = 1)}

\* the validated amounts of a tax-calculation request, in tenths of a dollar
\* (the request carries JSON numbers, which need not be whole)
WithdrawalTenths ==
  {0, 4, 6, 7, 10, 15, 30, 35000, 514470, 1000000, 1000010, 2500000}

Revenues == {0, 1, 50000, 200000, 1000000}

ExpensePercentages == {-50, 0, 30, 100, 250}

taxInputWithUserSchema ==
  [revenue : Revenues, expensesPercentage : ExpensePercentages,
   withdrawalTenths : WithdrawalTenths]

MaxInsights == 3

InvestmentAmounts == {0, 1000, 100000}

RrspRooms == {0, 500, 200000}

IncomeLevels == {"Under $50K", "$50-100K", "$100-200K", "Over $200K"}

Years == {0, 1, 10}

investmentInputWithUserSchema ==
  [investmentAmount : InvestmentAmounts, rrspRoom : RrspRooms,
   currentIncomeLevel : IncomeLevels, withdrawalIncomeLevel : IncomeLevels,
   years : Years]

\* income-level labels a caller of the function can pass: the four of the
\* rate tables and one that is in none of them
AnyIncomeLevels == IncomeLevels \cup {"Over $500K"}

AnyInvestmentInput ==
  [investmentAmount : InvestmentAmounts, rrspRoom : RrspRooms,
   currentIncomeLevel : AnyIncomeLevels, withdrawalIncomeLevel : AnyIncomeLevels,
   years : Years]

\* the input as the functions receive it
InvestmentInput(v) ==
  [investmentAmount |-> NumInt(v.investmentAmount),
   rrspRoom |-> NumInt(v.rrspRoom),
   currentIncomeLevel |-> v.currentIncomeLevel,
   withdrawalIncomeLevel |-> v.withdrawalIncomeLevel,
   timeline |-> DigitsOf(v.years) \o <<" years">>]

\* a body the schema rejects
InvalidTaxBodies ==
  {[revenue |-> -1, expensesPercentage |-> 30, withdrawalTenths |-> 1000000]}

\* the bodies every storage outcome is tried with
FewTaxBodies ==
  {v \in taxInputWithUserSchema :
     /\ v.revenue = 200000 /\ v.expensesPercentage = 30
     /\ v.withdrawalTenths \in {0, 1000000}}

StorageOk == [failsAt |-> "none", thrown |-> ErrorOf(<<>>)]

\* what the storage calls of tax-calculation can do: all resolve, or one of
\* them rejects, with an Error or with something that is no Error
StorageOutcomes ==
  {StorageOk}
  \cup [failsAt : {"getUserByEmail", "getCalculationsByUser", "createTaxCalculation"},
        thrown : {ErrorOf(<<"Connection terminated unexpectedly">>),
                  [isError |-> FALSE, message |-> <<>>]}]

\* the requests tried: every body with a storage that works, and a few
\* bodies with every storage outcome
FewTaxRequests ==
  [body : FewTaxBodies \cup InvalidTaxBodies, storage : StorageOutcomes]

TaxRequests ==
  [body : taxInputWithUserSchema, storage : {StorageOk}] \cup FewTaxRequests

\* a body the schema rejects
InvalidInvestmentBodies ==
  {[investmentAmount |-> -1000, rrspRoom |-> 0, currentIncomeLevel |-> "$50-100K",
    withdrawalIncomeLevel |-> "$50-100K", years |-> 10]}

\* messages of the errors schema.parse throws: one of them quotes a value of
\* the body that holds the letters JSON
ValidationMessages ==
  {<<"Number must be greater than or equal to 0">>,
   <<"Invalid enum value. Expected a known option, received '", "JSON", "'">>,
   <<"Failed to ", "parse", " number">>}

\* one insight as the prompt asks for it
AiInsightText ==
  <<Tok("{"), Key("strategy"), Str("AI strategy"),
    Key("description"), Str("AI description"),
    Key("advantages"), Tok("["), Str("AI advantage"), Tok("]"),
    Key("considerations"), Tok("["), Str("AI consideration"), Tok("]"),
    Key("bestFor"), Str("AI best for"),
    Key("craCompliance"), Str("AI compliance"), Tok("}")>>

RECURSIVE Repeat(_, _)
Repeat(text, n) == IF n = 0 THEN <<>> ELSE text \o Repeat(text, n - 1)

\* {"insights": [n insights]}
InsightsText(n) ==
  <<Tok("{"), Key("insights"), Tok("[")>> \o Repeat(AiInsightText, n)
  \o <<Tok("]"), Tok("}")>>

\* contents the AI service can return with success: the JSON asked for, no
\* content, prose, the JSON inside prose, null, an object without insights,
\* insights that are no list, and a list with a partial and a null insight
InsightContents ==
  {InsightsText(n) : n \in 0..MaxInsights}
  \cup {<<>>,
        <<Tok("prose")>>,
        <<Tok("prose")>> \o InsightsText(1) \o <<Tok("prose")>>,
        <<Tok("null")>>,
        <<Tok("{"), Key("note"), Str("AI note"), Tok("}")>>,
        <<Tok("{"), Key("insights"), Str("AI text"), Tok("}")>>,
        <<Tok("{"), Key("insights"), Tok("["),
          Tok("{"), Key("description"), Str(""), Key("advantages"), Tok("["), Tok("]"),
          Tok("}"), Tok("null"), Tok("]"), Tok("}")>>}

\* the messages of a failed AI call
AiErrors ==
  {<<>>, <<"Both AI providers failed">>, <<"Unexpected token in ", "JSON">>}

\* what aiService.generateResponse can answer
AiResponsesOver(contents) ==
  {[success |-> FALSE, error |-> e, content |-> <<>>] : e \in AiErrors}
  \cup {[success |-> TRUE, error |-> <<>>, content |-> c] : c \in contents}

\* bodies of calculate-expenses: the home office of the second has no
\* total size, the third is rejected by the schema
expenseInputWithUserSchema ==
  {[revenue |-> 200000, homeOfficeSize |-> 150, totalHomeSize |-> 1500,
    monthlyMeals |-> 400],
   [revenue |-> 50000, homeOfficeSize |-> 0, totalHomeSize |-> 0,
    monthlyMeals |-> 0]}

InvalidExpenseBodies ==
  {[revenue |-> -1, homeOfficeSize |-> 150, totalHomeSize |-> 1500,
    monthlyMeals |-> 400]}

\* one strategy as the prompt asks for it
AiStrategyText ==
  <<Tok("{"), Key("strategy"), Str("Conservative Approach"),
    Key("totalDeductions"), Str("$12,000"), Key("riskLevel"), Str("Low"), Tok("}")>>

\* contents the AI service can return for the expense analysis: the object
\* asked for, a bare list, a lone strategy, each of the three inside prose,
\* no content, prose alone, null, a broken object inside prose, and
\* strategies that are no list
ExpenseContents ==
  {<<Tok("{"), Key("strategies"), Tok("[")>> \o Repeat(AiStrategyText, n)
     \o <<Tok("]"), Tok("}")>> : n \in 1..MaxInsights}
  \cup {<<Tok("[")>> \o Repeat(AiStrategyText, 2) \o <<Tok("]")>>,
        AiStrategyText,
        <<Tok("prose"), Tok("{"), Key("strategies"), Tok("[")>> \o AiStrategyText
          \o <<Tok("]"), Tok("}"), Tok("prose")>>,
        <<Tok("prose"), Tok("[")>> \o Repeat(AiStrategyText, 2)
          \o <<Tok("]"), Tok("prose")>>,
        <<Tok("prose")>> \o AiStrategyText \o <<Tok("prose")>>,
        <<>>,
        <<Tok("prose")>>,
        <<Tok("null")>>,
        <<Tok("prose"), Tok("{"), Tok("prose"), Tok("}")>>,
        <<Tok("prose"), Tok("["), Tok("{"), Tok("prose"), Tok("}"), Tok("]")>>,
        <<Tok("{"), Key("strategies"), Str("AI text"), Tok("}")>>}

\* the contents every body is tried with
RankingContents == {InsightsText(MaxInsights), <<Tok("prose")>>}

\* the bodies every AI answer is tried with
NarrativeBodies ==
  {v \in investmentInputWithUserSchema :
     /\ v.investmentAmount = 100000 /\ v.rrspRoom \in {0, 200000}
     /\ v.currentIncomeLevel = "$100-200K" /\ v.withdrawalIncomeLevel = "$50-100K"
     /\ v.years = 10}
  \cup InvalidInvestmentBodies

\* the requests tried: every body with the usual answers of the AI service,
\* and a few bodies with every answer
FewInvestmentRequests ==
  [body : NarrativeBodies, aiResponse : AiResponsesOver(InsightContents)]

InvestmentRequests ==
  [body : investmentInputWithUserSchema,
   aiResponse : {r \in AiResponsesOver(RankingContents) : r.error = <<>>}]
  \cup FewInvestmentRequests

\* the handlers that can be in flight together
MaxRequests == 2

Slots == 1..MaxRequests

\* the bodies of the requests in flight: their rows differ
ConcurrentTaxBodies == FewTaxBodies

ConcurrentInvestmentBodies ==
  {v \in investmentInputWithUserSchema :
     /\ v.investmentAmount = 100000 /\ v.rrspRoom \in {0, 200000}
     /\ v.currentIncomeLevel = "$100-200K" /\ v.withdrawalIncomeLevel = "$50-100K"
     /\ v.years = 1}

\* what the AI service answers them: an insight
ConcurrentAiResponses ==
  {r \in AiResponsesOver({InsightsText(1)}) : r.success}

\* the conversations storage holds, and the ids requests name
Conversations == {1}

ConversationIds == {1, 2}

\* the content of a chat message, character by character: a short one and
\* one of 51 characters
ShortContent == <<"h", "i">>

LongContent == Repeat(<<"x">>, 51)

\* bodies of analyze-query: the last one has no content
AnalyzeBodies ==
  [conversationId : ConversationIds, content : {ShortContent}, model : {"gpt-4o"}]
  \cup {[conversationId |-> 1, content |-> LongContent, model |-> "gpt-4o"],
        [conversationId |-> 1, content |-> <<>>, model |-> "gpt-4o"]}

\* what the model provider does with a request: it answers, or the client
\* throws
ProviderOutcomes ==
  {[ok |-> TRUE, response |-> <<"Sure.">>, error |-> <<>>]}
  \cup {[ok |-> FALSE, response |-> <<>>, error |-> e] :
          e \in {<<"Incorrect ", "API key", " provided">>,
                 <<"You exceeded your ", "rate limit">>,
                 <<"The ", "model", " does not exist">>,
                 <<"Connection error.">>}}

\* what a storage call rejects with
StorageError == <<"Connection terminated unexpectedly">>

\* the emails users register with
Emails == {"a@example.com", "b@example.com", "c@example.com"}

\* the email of a register-user body: one of them, or "" in a body that
\* userRegistrationSchema rejects
RegistrationBodies == Emails \cup {""}

\* how many submit events of the chat input one run follows, and how many
\* messages are typed
MaxSubmits == 3

MaxTyped == 2

Submits == 1..MaxSubmits

\* what is typed into the chat input: a message, or blanks only
MessageTexts == {"hi", " "}

\* how many clicks on delete buttons of the sidebar one run follows
MaxClicks == 4

\* the conversations the sidebar lists
SidebarConversations == {1, 2}

\* ------------------------------------------------------------------------
\* The state machine: one request or call at a time
\* ------------------------------------------------------------------------
VARIABLES
  pc,            \* "idle", or "done" when op has run on arg and left out
  op,            \* the function or route that ran
  arg,           \* its input
  out,           \* its result
  calculations,  \* storage: the calculationNumber of every stored calculation
  requests,      \* the requests in flight: the locals of each handler
  taxRates,      \* the TAX_RATES object of the running process
  messages,      \* storage: the messages table, in the order of insertion
  title,         \* storage: the title of conversation 1
  analyses,      \* the analyze-query requests: the locals of each handler
  users,         \* storage: the users table, in the order of insertion
  registrations, \* the register-user requests: the locals of each handler
  message,       \* MessageInput: the text of the textarea
  isLoading,     \* MessageInput: the isLoading state
  conversationId, \* MessageInput: the conversationId prop, 0 for null
  typed,         \* how many messages have been typed
  submits,       \* the submit events: the locals of each handleSubmit
  deleteConfirm, \* Sidebar: the deleteConfirm state, 0 for null
  armedBy,       \* the click that set deleteConfirm, 0 when it is null
  timers,        \* the auto-cancel timers pending, each named by its click
  deleteRequests, \* the DELETE requests issued, in order
  deleting,      \* the ids of the DELETE requests not yet answered
  history,       \* every click on a delete button, in order
  lastCancel     \* the last confirmation a timer cleared

\* what the requests in flight read and write besides storage
shared == <<requests, taxRates>>

\* the state of the chat
chat == <<messages, title, analyses>>

\* the state of user registration
accounts == <<users, registrations>>

\* the state of the chat input
input == <<message, isLoading, conversationId, typed, submits>>

\* the state of the sidebar
sidebar ==
  <<deleteConfirm, armedBy, timers, deleteRequests, deleting, history, lastCancel>>

\* what the calculation and chat routes leave alone
others == <<accounts, input, sidebar>>

vars == <<pc, op, arg, out, calculations, requests, taxRates, messages, title,
          analyses, users, registrations, message, isLoading, conversationId,
          typed, submits, deleteConfirm, armedBy, timers, deleteRequests,
          deleting, history, lastCancel>>

\* what user registration leaves alone
server == <<pc, op, arg, out, calculations, shared, chat>>

\* a submit event that has not happened; typed is the message it found,
\* overlapped tells whether an earlier submit was in progress when it
\* arrived, created and sent whether it has called createConversation and
\* /api/analyze-query
NoSubmit ==
  [pc |-> "idle", typed |-> 0, content |-> "", conversationId |-> 0,
   overlapped |-> FALSE, created |-> FALSE, sent |-> FALSE]

\* no confirmation has been cleared by a timer
NoCancel == [timer |-> 0, armedBy |-> 0]

\* a register-user request that has not arrived; existed tells whether its
\* email had a user when it arrived
NoRegistration ==
  [pc |-> "idle", email |-> "", existed |-> FALSE, response |-> <<>>]

\* an analyze-query request that has not arrived; ai tells what has become
\* of its call of aiService.analyzeQuery, thrown is the message of the error
\* the provider call threw
NoAnalysis ==
  [pc |-> "idle", body |-> <<>>, conversation |-> <<>>, ai |-> "not called",
   sent |-> <<>>, thrown |-> <<>>, analysisResult |-> <<>>, response |-> <<>>]

\* a handler that is not running; one that has answered keeps what it was
\* asked and what it answered, its other locals are gone
NoRequest ==
  [pc |-> "idle", kind |-> "none", body |-> <<>>, strategies |-> <<>>,
   calculationNumber |-> 0, aiResponse |-> <<>>, response |-> <<>>]

Init ==
  /\ pc = "idle"
  /\ op = "none"
  /\ arg = <<>>
  /\ out = <<>>
  /\ calculations = <<>>
  /\ requests = [slot \in Slots |-> NoRequest]
  /\ taxRates = TAX_RATES
  /\ messages = <<>>
  /\ title = <<"New Conversation">>
  /\ analyses = [request \in Slots |-> NoAnalysis]
  /\ users = <<>>
  /\ registrations = [request \in Slots |-> NoRegistration]
  /\ message = ""
  /\ isLoading = FALSE
  /\ conversationId = 0
  /\ typed = 0
  /\ submits = [n \in Submits |-> NoSubmit]
  /\ deleteConfirm = 0
  /\ armedBy = 0
  /\ timers = <<>>
  /\ deleteRequests = <<>>
  /\ deleting = <<>>
  /\ history = <<>>
  /\ lastCancel = NoCancel

Done(o, a, r) ==
  /\ pc = "idle"
  /\ pc' = "done"
  /\ op' = o
  /\ arg' = a
  /\ out' = r
  /\ UNCHANGED <<shared, chat, others>>

CallPersonalTax ==
  \E x \in Incomes :
    /\ Done("calculatePersonalTax", [income |-> x], calculatePersonalTax(NumInt(x)))
    /\ UNCHANGED calculations

CallCPP ==
  \E s \in Salaries :
    /\ Done("calculateCPPContributions", [salary |-> s],
            calculateCPPContributions(NumInt(s)))
    /\ UNCHANGED calculations

CallEI ==
  \E s \in Salaries :
    /\ Done("calculateEIContributions", [salary |-> s],
            calculateEIContributions(NumInt(s)))
    /\ UNCHANGED calculations

CallDividendTax ==
  \E d \in Dividends, o \in OtherIncomes :
    /\ Done("calculateDividendTax", [dividend |-> d, otherIncome |-> o],
            calculateDividendTax(NumInt(d), NumInt(o)))
    /\ UNCHANGED calculations

\* a request: the body is validated, the rows are computed, the user and
\* the number of their calculations are read, the calculation is stored
\* under the next calculationNumber, the rows are returned
TaxCalculationOver(tried) ==
  \E request \in tried :
    \E validationError \in
         ValidationErrorsFor(request.body, taxInputWithUserSchema,
                             ValidationMessages) :
      /\ Len(calculations) < MaxCalculations
      /\ Done("tax-calculation",
              request.body @@ [validationError |-> validationError,
                               storage |-> request.storage],
              TaxCalculationResponse(NumInt(request.body.revenue),
                                     NumInt(request.body.expensesPercentage),
                                     Dec(request.body.withdrawalTenths, 1),
                                     validationError, request.storage))
      /\ calculations' =
           IF validationError = <<>> /\ request.storage.failsAt = "none"
           THEN Append(calculations, Len(calculations) + 1)
           ELSE calculations

TaxCalculation == TaxCalculationOver(TaxRequests)

\* the function takes `input: any`: the caller may pass any label
CallInvestmentStrategies ==
  \E v \in AnyInvestmentInput :
    /\ Done("calculateInvestmentStrategies", v,
            calculateInvestmentStrategies(InvestmentInput(v)))
    /\ UNCHANGED calculations

\* a request: the body is validated, the strategies are computed, the AI is
\* asked for the narrative, the strategies are ranked and returned; nothing
\* is stored
CalculateInvestmentOver(tried) ==
  \E request \in tried :
    \E validationError \in
         ValidationErrorsFor(request.body, investmentInputWithUserSchema,
                             ValidationMessages) :
      /\ Done("calculate-investment",
              request.body @@ [validationError |-> validationError,
                               aiResponse |-> request.aiResponse],
              CalculateInvestmentResponse(InvestmentInput(request.body),
                                          validationError, request.aiResponse))
      /\ UNCHANGED calculations

CalculateInvestment == CalculateInvestmentOver(InvestmentRequests)

\* a request: the body is validated, the AI is asked for the strategies,
\* its answer is parsed, validated and returned
CalculateExpenses ==
  \E body \in expenseInputWithUserSchema \cup InvalidExpenseBodies :
    \E validationError \in
         ValidationErrorsFor(body, expenseInputWithUserSchema, ValidationMessages),
       aiResponse \in AiResponsesOver(ExpenseContents) :
      /\ Done("calculate-expenses",
              body @@ [validationError |-> validationError,
                       aiResponse |-> aiResponse],
              CalculateExpensesResponse(validationError, aiResponse))
      /\ UNCHANGED calculations

Return ==
  /\ pc = "done"
  /\ pc' = "idle"
  /\ op' = "none"
  /\ arg' = <<>>
  /\ out' = <<>>
  /\ UNCHANGED <<calculations, shared, chat, others>>

Next ==
  \/ CallPersonalTax
  \/ CallCPP
  \/ CallEI
  \/ CallDividendTax
  \/ TaxCalculation
  \/ Return

Spec == Init /\ [][Next]_vars

NextInvestment ==
  \/ CallInvestmentStrategies
  \/ CalculateInvestment
  \/ Return

SpecInvestment == Init /\ [][NextInvestment]_vars

\* the three calculation routes, each over its few bodies and every answer
\* of its collaborators
TaxCalculationFew == TaxCalculationOver(FewTaxRequests)

CalculateInvestmentFew == CalculateInvestmentOver(FewInvestmentRequests)

NextRoutes ==
  \/ TaxCalculationFew
  \/ CalculateExpenses
  \/ CalculateInvestmentFew
  \/ Return

SpecRoutes == Init /\ [][NextRoutes]_vars

\* ------------------------------------------------------------------------
\* The state machine: requests in flight together.  A handler runs from one
\* await to the next without interruption; at an await any other handler
\* may run.
\* ------------------------------------------------------------------------
\* slot runs handler steps: its locals become r
Step(slot, r) ==
  /\ requests' = [requests EXCEPT ![slot] = r]
  /\ UNCHANGED <<pc, op, arg, out, taxRates, chat, others>>

\* a request is handled in the first slot that is free
Free(slot) ==
  /\ requests[slot].pc = "idle"
  /\ \A lower \in 1..(slot - 1) : requests[lower].pc # "idle"

\* the calculations stored or about to be
Pending ==
  Len(calculations)
  + Cardinality({slot \in Slots : /\ requests[slot].kind = "tax-calculation"
                                  /\ requests[slot].pc # "responded"})

\* lines 174-214: the body is validated, the rows are computed, and the
\* handler awaits storage.getUserByEmail
BeginTaxCalculation(slot) ==
  \E body \in ConcurrentTaxBodies :
    /\ Free(slot)
    /\ Pending < MaxCalculations
    /\ Step(slot, [NoRequest EXCEPT
                     !.pc = "getUserByEmail",
                     !.kind = "tax-calculation",
                     !.body = body,
                     !.strategies =
                       TaxStrategies(NumInt(body.revenue),
                                     NumInt(body.expensesPercentage),
                                     Dec(body.withdrawalTenths, 1))])
    /\ UNCHANGED calculations

\* line 214 resolves; line 215 awaits storage.getCalculationsByUser
GetUserByEmail(slot) ==
  /\ requests[slot].pc = "getUserByEmail"
  /\ Step(slot, [requests[slot] EXCEPT !.pc = "getCalculationsByUser"])
  /\ UNCHANGED calculations

\* line 215 resolves with the calculations stored by now; line 216 numbers
\* this one; line 219 awaits storage.createTaxCalculation
GetCalculationsByUser(slot) ==
  /\ requests[slot].pc = "getCalculationsByUser"
  /\ Step(slot, [requests[slot] EXCEPT
                   !.pc = "createTaxCalculation",
                   !.calculationNumber = Len(calculations) + 1])
  /\ UNCHANGED calculations

\* the rows of some handler of the same route, as if the routes kept their
\* rows in one place
validatedResultOfAny(inFlight, slot) ==
  inFlight[CHOOSE other \in DOMAIN inFlight :
             inFlight[other].kind = inFlight[slot].kind].strategies

\* the rows the handler in slot answers with: its own local
validatedResult(inFlight, slot) == inFlight[slot].strategies

\* lines 219-233: the calculation is stored and the rows are sent
CreateTaxCalculation(slot) ==
  /\ requests[slot].pc = "createTaxCalculation"
  /\ calculations' = Append(calculations, requests[slot].calculationNumber)
  /\ Step(slot, [NoRequest EXCEPT
                   !.pc = "responded",
                   !.kind = requests[slot].kind,
                   !.body = requests[slot].body,
                   !.response = [status |-> 200,
                                 result |-> validatedResult(requests, slot)]])

\* lines 580-637: the body is validated, the strategies are computed, and
\* the handler awaits aiService.generateResponse
BeginCalculateInvestment(slot) ==
  \E body \in ConcurrentInvestmentBodies :
    /\ Free(slot)
    /\ Step(slot, [NoRequest EXCEPT
                     !.pc = "generateResponse",
                     !.kind = "calculate-investment",
                     !.body = body,
                     !.strategies =
                       calculateInvestmentStrategies(InvestmentInput(body))])
    /\ UNCHANGED calculations

\* lines 637-743: the AI service answers and the ranked strategies are sent
GenerateResponse(slot) ==
  \E aiResponse \in ConcurrentAiResponses :
    /\ requests[slot].pc = "generateResponse"
    /\ Step(slot, [NoRequest EXCEPT
                     !.pc = "responded",
                     !.kind = requests[slot].kind,
                     !.body = requests[slot].body,
                     !.aiResponse = aiResponse,
                     !.response =
                       InvestmentNarrated(validatedResult(requests, slot),
                                          aiResponse)])
    /\ UNCHANGED calculations

\* the handler has returned
Finish(slot) ==
  /\ requests[slot].pc = "responded"
  /\ Step(slot, NoRequest)
  /\ UNCHANGED calculations

NextConcurrent ==
  \E slot \in Slots :
    \/ BeginTaxCalculation(slot)
    \/ GetUserByEmail(slot)
    \/ GetCalculationsByUser(slot)
    \/ CreateTaxCalculation(slot)
    \/ BeginCalculateInvestment(slot)
    \/ GenerateResponse(slot)
    \/ Finish(slot)

SpecConcurrent == Init /\ [][NextConcurrent]_vars

\* ------------------------------------------------------------------------
\* POST /api/analyze-query (src/server/routes.ts) and aiService.analyzeQuery
\* (src/server/ai-service.ts): requests in flight together
\* ------------------------------------------------------------------------
\* storage.createMessage: the message is inserted after those stored
createMessage(table, inserted) == Append(table, inserted)

\* storage.getConversation: the conversation with its messages, or undefined
getConversation(table, id) ==
  IF id \in Conversations
  THEN [found |-> TRUE,
        messages |-> SelectSeq(table, LAMBDA m : m.conversationId = id)]
  ELSE [found |-> FALSE, messages |-> <<>>]

\* the catch block of aiService.analyzeQuery: the error it throws for the
\* error it caught
AnalyzeQueryError(errorMessage) ==
  IF Includes(errorMessage, "API key")
  THEN <<"Invalid ", "API key",
         ". Please check your OpenAI ", "API key", " configuration.">>
  ELSE IF Includes(errorMessage, "rate limit")
  THEN <<"Rate limit exceeded. Please try again in a moment.">>
  ELSE IF Includes(errorMessage, "model")
  THEN <<"Invalid ", "model", " specified. Please select a valid ", "model", ".">>
  ELSE <<"AI service error: ">> \o errorMessage

\* an analyzeQuery that answers whatever the provider did
RethrowsNever(outcome) == FALSE

\* aiService.analyzeQuery throws when the provider failed
Rethrows(outcome) == ~outcome.ok

\* the catch block of the route
CatchAnalyze(errorMessage) ==
  IF Includes(errorMessage, "API key")
  THEN [status |-> 500,
        message |-> <<"AI service configuration error. Please check ",
                      "API key", "s.">>]
  ELSE IF Includes(errorMessage, "rate limit")
  THEN [status |-> 429,
        message |-> <<"Service ", "rate limit",
                      " exceeded. Please try again in a moment.">>]
  ELSE [status |-> 500, message |-> errorMessage]

\* content.length > 50 ? content.substring(0, 50) + "..." : content
TitleOf(content) ==
  IF Len(content) > 50 THEN SubSeq(content, 1, 50) \o <<"...">> ELSE content

\* conversation.messages.slice(-10).map(msg => ({role, content})): by, the
\* request that stored the message, is kept to tell messages of equal
\* content apart
conversationHistory(stored) ==
  LET from == IF Len(stored) > 10 THEN Len(stored) - 9 ELSE 1
      recent == SubSeq(stored, from, Len(stored))
  IN  [i \in 1..Len(recent) |->
         [role |-> recent[i].role, content |-> recent[i].content,
          by |-> recent[i].by]]

\* the system message of aiService.analyzeQuery
SystemPrompt == <<"You are a helpful AI assistant. ...">>

\* the messages array of aiService.analyzeQuery: the system message, the
\* conversation history, the current query
MessagesOf(request, query, earlier) ==
  <<[role |-> "system", content |-> SystemPrompt, by |-> 0]>>
  \o earlier
  \o <<[role |-> "user", content |-> query, by |-> request]>>

\* request runs handler steps: its locals become r
StepAnalysis(request, r) ==
  /\ analyses' = [analyses EXCEPT ![request] = r]
  /\ UNCHANGED <<pc, op, arg, out, calculations, shared, others>>

\* the handler answers and returns
Answer(request, response) ==
  StepAnalysis(request, [analyses[request] EXCEPT
                           !.pc = "responded", !.response = response])

\* lines 71-80: the fields are checked and the handler awaits
\* storage.createMessage for the user message
BeginAnalyzeQuery(request) ==
  \E body \in AnalyzeBodies :
    /\ analyses[request].pc = "idle"
    /\ \A earlier \in 1..(request - 1) : analyses[earlier].pc # "idle"
    /\ StepAnalysis(request,
         IF body.content = <<>>
         THEN [NoAnalysis EXCEPT
                 !.pc = "responded", !.body = body,
                 !.response =
                   [status |-> 400,
                    message |-> <<"Missing required fields: conversationId, content, model">>]]
         ELSE [NoAnalysis EXCEPT !.pc = "createUserMessage", !.body = body])
    /\ UNCHANGED <<messages, title>>

\* lines 80-87: the user message is stored, or storage rejects
CreateUserMessage(request) ==
  /\ analyses[request].pc = "createUserMessage"
  /\ \/ /\ messages' =
            createMessage(messages,
                          [conversationId |-> analyses[request].body.conversationId,
                           role |-> "user",
                           content |-> analyses[request].body.content,
                           by |-> request])
        /\ StepAnalysis(request,
                        [analyses[request] EXCEPT !.pc = "getConversation"])
     \/ /\ Answer(request, CatchAnalyze(StorageError))
        /\ UNCHANGED messages
  /\ UNCHANGED title

\* lines 87-99: the conversation is read; if there is none the handler
\* answers 404, else it calls aiService.analyzeQuery; or storage rejects
GetConversation(request) ==
  /\ analyses[request].pc = "getConversation"
  /\ \/ LET conversation ==
              getConversation(messages, analyses[request].body.conversationId)
        IN  IF conversation.found
            THEN StepAnalysis(request,
                   [analyses[request] EXCEPT
                      !.pc = "analyzeQuery",
                      !.conversation = conversation.messages,
                      !.sent =
                        MessagesOf(request, analyses[request].body.content,
                                   conversationHistory(conversation.messages)),
                      !.ai = "called"])
            ELSE Answer(request,
                        [status |-> 404,
                         message |-> <<"Conversation not found">>])
     \/ Answer(request, CatchAnalyze(StorageError))
  /\ UNCHANGED <<messages, title>>

\* lines 99-107: aiService.analyzeQuery returns its result or throws
AnalyzeQuery(request) ==
  \E outcome \in ProviderOutcomes :
    /\ analyses[request].pc = "analyzeQuery"
    /\ StepAnalysis(request,
         IF Rethrows(outcome)
         THEN [analyses[request] EXCEPT
                 !.pc = "responded",
                 !.ai = "failed",
                 !.thrown = outcome.error,
                 !.response = CatchAnalyze(AnalyzeQueryError(outcome.error))]
         ELSE [analyses[request] EXCEPT
                 !.pc = "createAssistantMessage",
                 !.ai = IF outcome.ok THEN "returned" ELSE "failed",
                 !.thrown = outcome.error,
                 !.analysisResult =
                   IF outcome.response = <<>> THEN <<"No response generated">>
                   ELSE outcome.response])
    /\ UNCHANGED <<messages, title>>

\* the response of a request that succeeded
Success(request) ==
  [status |-> 200,
   userMessage |-> [role |-> "user", content |-> analyses[request].body.content],
   assistantMessage |-> [role |-> "assistant",
                         content |-> analyses[request].analysisResult]]

\* lines 107-123: the assistant message is stored, or storage rejects; the
\* first exchange of a conversation goes on to its title
CreateAssistantMessage(request) ==
  /\ analyses[request].pc = "createAssistantMessage"
  /\ \/ /\ messages' =
            createMessage(messages,
                          [conversationId |-> analyses[request].body.conversationId,
                           role |-> "assistant",
                           content |-> analyses[request].analysisResult,
                           by |-> request])
        /\ IF Len(analyses[request].conversation) = 1
           THEN StepAnalysis(request,
                  [analyses[request] EXCEPT !.pc = "updateConversationTitle"])
           ELSE Answer(request, Success(request))
     \/ /\ Answer(request, CatchAnalyze(StorageError))
        /\ UNCHANGED messages
  /\ UNCHANGED title

\* lines 114-123: the title is stored, or storage rejects
UpdateConversationTitle(request) ==
  /\ analyses[request].pc = "updateConversationTitle"
  /\ \/ /\ title' = TitleOf(analyses[request].body.content)
        /\ Answer(request, Success(request))
     \/ /\ Answer(request, CatchAnalyze(StorageError))
        /\ UNCHANGED title
  /\ UNCHANGED messages

NextChat ==
  \E request \in Slots :
    \/ BeginAnalyzeQuery(request)
    \/ CreateUserMessage(request)
    \/ GetConversation(request)
    \/ AnalyzeQuery(request)
    \/ CreateAssistantMessage(request)
    \/ UpdateConversationTitle(request)

SpecChat == Init /\ [][NextChat]_vars

\* ------------------------------------------------------------------------
\* POST /api/register-user: requests in flight together
\* ------------------------------------------------------------------------
\* storage.getUserByEmail: the users of that email
UsersOf(table, email) == SelectSeq(table, LAMBDA u : u.email = email)

\* storage.createUser: the user is inserted under the next id
createUser(table, email) == Append(table, [id |-> Len(table) + 1, email |-> email])

\* request runs handler steps: its locals become r
StepRegistration(request, r) ==
  /\ registrations' = [registrations EXCEPT ![request] = r]
  /\ UNCHANGED <<server, input, sidebar>>

\* the catch block of the route
FailedToRegister == [status |-> 400, error |-> <<"Failed to register user">>]

\* lines 145-150: the body is validated and the handler awaits
\* storage.getUserByEmail; a body the schema rejects is answered 400
BeginRegisterUser(request) ==
  \E email \in RegistrationBodies :
    /\ registrations[request].pc = "idle"
    /\ \A earlier \in 1..(request - 1) : registrations[earlier].pc # "idle"
    /\ StepRegistration(request,
         IF email = ""
         THEN [NoRegistration EXCEPT
                 !.pc = "responded", !.response = FailedToRegister]
         ELSE [NoRegistration EXCEPT
                 !.pc = "getUserByEmail",
                 !.email = email,
                 !.existed = UsersOf(users, email) # <<>>])
    /\ UNCHANGED users

\* lines 150-156: the user of the email is returned if there is one, else
\* the handler awaits storage.createUser; or storage rejects
LookUpUser(request) ==
  /\ registrations[request].pc = "getUserByEmail"
  /\ \/ LET existingUser == UsersOf(users, registrations[request].email)
        IN  StepRegistration(request,
              IF existingUser # <<>>
              THEN [registrations[request] EXCEPT
                      !.pc = "responded",
                      !.response = [status |-> 200, user |-> existingUser[1]]]
              ELSE [registrations[request] EXCEPT !.pc = "createUser"])
     \/ StepRegistration(request,
          [registrations[request] EXCEPT
             !.pc = "responded", !.response = FailedToRegister])
  /\ UNCHANGED users

\* lines 156-163: the user is created and returned; or storage rejects
CreateUser(request) ==
  /\ registrations[request].pc = "createUser"
  /\ \/ /\ users' = createUser(users, registrations[request].email)
        /\ StepRegistration(request,
             [registrations[request] EXCEPT
                !.pc = "responded",
                !.response = [status |-> 200,
                              user |-> [id |-> Len(users) + 1,
                                        email |-> registrations[request].email]]])
     \/ /\ StepRegistration(request,
             [registrations[request] EXCEPT
                !.pc = "responded", !.response = FailedToRegister])
        /\ UNCHANGED users

NextRegister ==
  \E request \in Slots :
    \/ BeginRegisterUser(request)
    \/ LookUpUser(request)
    \/ CreateUser(request)

SpecRegister == Init /\ [][NextRegister]_vars

\* ------------------------------------------------------------------------
\* MessageInput (src/client/src/components/chat/message-input.tsx): submit
\* events and the responses they wait for
\* ------------------------------------------------------------------------
\* message.trim()
Trim(text) == IF text = " " THEN "" ELSE text

\* a submit that is awaiting a response
InProgress(n) == submits[n].pc \in {"createConversation", "sendMessage"}

\* handleTextareaChange: a message is typed into the empty textarea, which
\* is disabled while isLoading
Type ==
  \E text \in MessageTexts :
    /\ Trim(message) = ""
    /\ ~isLoading
    /\ typed < MaxTyped
    /\ message' = text
    /\ typed' = typed + 1
    /\ UNCHANGED <<isLoading, conversationId, submits>>
    /\ UNCHANGED <<server, accounts, sidebar>>

\* lines 78-97: the submit returns at once when the message is blank or
\* isLoading; else it awaits createConversation.mutateAsync when there is no
\* conversation, or sendMessage.mutateAsync, whose mutationFn sets isLoading
HandleSubmit(n) ==
  /\ submits[n].pc = "idle"
  /\ \A earlier \in 1..(n - 1) : submits[earlier].pc # "idle"
  /\ LET arrived == [NoSubmit EXCEPT
                      !.typed = typed,
                      !.content = message,
                      !.conversationId = conversationId,
                      !.overlapped = \E m \in Submits : InProgress(m)]
     IN  IF Trim(message) = "" \/ isLoading
         THEN /\ submits' = [submits EXCEPT ![n] = [arrived EXCEPT !.pc = "returned"]]
              /\ UNCHANGED isLoading
         ELSE IF conversationId = 0
         THEN /\ submits' = [submits EXCEPT ![n] =
                               [arrived EXCEPT !.pc = "createConversation",
                                               !.created = TRUE]]
              /\ UNCHANGED isLoading
         ELSE /\ submits' = [submits EXCEPT ![n] =
                               [arrived EXCEPT !.pc = "sendMessage",
                                               !.sent = TRUE]]
              /\ isLoading' = TRUE
  /\ UNCHANGED <<message, conversationId, typed>>
  /\ UNCHANGED <<server, accounts, sidebar>>

\* lines 26-44 and 88-97: the conversation is created, its id goes to
\* onConversationCreated and the submit awaits sendMessage.mutateAsync; or
\* the request fails and the submit returns
CreateConversationSettles(n) ==
  /\ submits[n].pc = "createConversation"
  /\ \/ /\ conversationId' = n
        /\ isLoading' = TRUE
        /\ submits' = [submits EXCEPT ![n] =
                         [submits[n] EXCEPT !.pc = "sendMessage",
                                            !.conversationId = n,
                                            !.sent = TRUE]]
     \/ /\ submits' = [submits EXCEPT ![n] = [submits[n] EXCEPT !.pc = "returned"]]
        /\ UNCHANGED <<conversationId, isLoading>>
  /\ UNCHANGED <<message, typed>>
  /\ UNCHANGED <<server, accounts, sidebar>>

\* lines 56-76: onSuccess clears the message and isLoading, onError clears
\* isLoading
SendMessageSettles(n) ==
  /\ submits[n].pc = "sendMessage"
  /\ \/ message' = ""
     \/ UNCHANGED message
  /\ isLoading' = FALSE
  /\ submits' = [submits EXCEPT ![n] = [submits[n] EXCEPT !.pc = "returned"]]
  /\ UNCHANGED <<conversationId, typed>>
  /\ UNCHANGED <<server, accounts, sidebar>>

NextInput ==
  \/ Type
  \/ \E n \in Submits :
       \/ HandleSubmit(n)
       \/ CreateConversationSettles(n)
       \/ SendMessageSettles(n)

SpecInput == Init /\ [][NextInput]_vars

\* ------------------------------------------------------------------------
\* Sidebar (src/replit.md): clicks on delete buttons, auto-cancel timers and
\* the DELETE requests
\* ------------------------------------------------------------------------
\* a click that confirms whatever conversation is pending
ConfirmedAny(pending, id) == pending # 0

\* deleteConfirm === id
Confirmed(pending, id) == pending = id

\* handleDeleteClick: the click on the button of id deletes when id is the
\* one pending, else it makes id the one pending and starts a timer
DeleteClick(id) ==
  /\ Len(history) < MaxClicks
  /\ LET click == Len(history) + 1
     IN  IF Confirmed(deleteConfirm, id)
         THEN /\ deleteRequests' = Append(deleteRequests, id)
              /\ deleting' = Append(deleting, id)
              /\ history' = Append(history, [id |-> id, pending |-> deleteConfirm,
                                             did |-> "deleted"])
              /\ UNCHANGED <<deleteConfirm, armedBy, timers>>
         ELSE /\ deleteConfirm' = id
              /\ armedBy' = click
              /\ timers' = Append(timers, click)
              /\ history' = Append(history, [id |-> id, pending |-> deleteConfirm,
                                             did |-> "armed"])
              /\ UNCHANGED <<deleteRequests, deleting>>
  /\ UNCHANGED lastCancel
  /\ UNCHANGED <<server, accounts, input>>

\* line 170: the oldest timer fires (all wait 3000 ms) and sets
\* deleteConfirm to null
TimerFires ==
  /\ timers # <<>>
  /\ timers' = Tail(timers)
  /\ deleteConfirm' = 0
  /\ armedBy' = 0
  /\ lastCancel' = IF deleteConfirm # 0
                   THEN [timer |-> Head(timers), armedBy |-> armedBy]
                   ELSE lastCancel
  /\ UNCHANGED <<deleteRequests, deleting, history>>
  /\ UNCHANGED <<server, accounts, input>>

\* lines 144-161: the oldest DELETE request is answered; onSuccess sets
\* deleteConfirm to null, onError leaves it
DeleteSettles ==
  /\ deleting # <<>>
  /\ deleting' = Tail(deleting)
  /\ \/ deleteConfirm' = 0 /\ armedBy' = 0
     \/ UNCHANGED <<deleteConfirm, armedBy>>
  /\ UNCHANGED <<timers, deleteRequests, history, lastCancel>>
  /\ UNCHANGED <<server, accounts, input>>

NextSidebar ==
  \/ \E id \in SidebarConversations : DeleteClick(id)
  \/ TimerFires
  \/ DeleteSettles

SpecSidebar == Init /\ [][NextSidebar]_vars

\* ------------------------------------------------------------------------
\* The properties
\* ------------------------------------------------------------------------
Ran(o) == pc = "done" /\ op = o

\* route o has answered a request with success
Answered(o) == Ran(o) /\ out.status = 200


\* the brackets whose range [min, max] holds x
BracketsHolding(x) ==
  {i \in 1..Len(PERSONAL_BRACKETS) :
     NumLe(PERSONAL_BRACKETS[i].min, x) /\ NumLe(x, PERSONAL_BRACKETS[i].max)}

\* C1: for every whole income x >= 0 the next dollar costs
\* calculatePersonalTax(x + 1) - calculatePersonalTax(x) >= 0, and that is the
\* rate of the bracket whose range holds x.
C1_SlopeIsBracketRate ==
  (Ran("calculatePersonalTax") /\ arg.income >= 0) =>
    LET slope == NumSub(calculatePersonalTax(NumInt(arg.income + 1)), out)
    IN  /\ NumLe(Zero, slope)
        /\ BracketsHolding(NumInt(arg.income)) # {}
        /\ \A i \in BracketsHolding(NumInt(arg.income)) :
             slope = PERSONAL_BRACKETS[i].rate

\* the tax of the last dollar of the first bracket has been computed
C1_Witness ==
  /\ Ran("calculatePersonalTax")
  /\ arg.income = 51446
  /\ NumSub(calculatePersonalTax(NumInt(51447)), out) = Dec(2005, 4)

\* C2: the tax of an income <= 0 is 0; the tax of 51446 is 51446 * 0.2005; the
\* tax of 300000 is the tax of 246753 plus 0.4953 of the 53247 above it.
C2_FixedPoints ==
  Ran("calculatePersonalTax") =>
    /\ arg.income <= 0 => out = Zero
    /\ arg.income = 51446 => out = NumMul(NumInt(51446), Dec(2005, 4))
    /\ arg.income = 300000 =>
         out = NumAdd(calculatePersonalTax(NumInt(246753)),
                      NumMul(NumInt(300000 - 246753), Dec(4953, 4)))

C2_Witness ==
  /\ Ran("calculatePersonalTax")
  /\ arg.income = 300000
  /\ NumLt(NumMul(NumInt(300000 - 246753), Dec(4953, 4)), out)

\* the widths of the first k brackets, summed
RECURSIVE SumOfWidths(_)
SumOfWidths(k) ==
  IF k = 0 THEN Zero
  ELSE NumAdd(SumOfWidths(k - 1), BracketWidth(PERSONAL_BRACKETS[k]))

\* the tax of the first k brackets, each taken whole
RECURSIVE TaxOfWholeBrackets(_)
TaxOfWholeBrackets(k) ==
  IF k = 0 THEN Zero
  ELSE NumAdd(TaxOfWholeBrackets(k - 1),
              NumMul(BracketWidth(PERSONAL_BRACKETS[k]), PERSONAL_BRACKETS[k].rate))

\* C3: the brackets start at 0, each later one starts one above the one before,
\* the last one has no upper end, and the inclusive widths of the first k
\* brackets add up to the min of bracket k + 1; so the loop, given the min of
\* bracket k + 1, takes exactly the first k brackets whole.
C3_BracketsPartition ==
  LET n == Len(PERSONAL_BRACKETS) IN
  /\ PERSONAL_BRACKETS[1].min = Zero
  /\ \A k \in 2..n :
       PERSONAL_BRACKETS[k].min = NumAdd(PERSONAL_BRACKETS[k - 1].max, NumInt(1))
  /\ \A k \in 1..(n - 1) : NumLe(PERSONAL_BRACKETS[k].min, PERSONAL_BRACKETS[k].max)
  /\ PERSONAL_BRACKETS[n].max = Infinity
  /\ \A k \in 1..(n - 1) : SumOfWidths(k) = PERSONAL_BRACKETS[k + 1].min
  /\ \A k \in 1..(n - 1) :
       (Ran("calculatePersonalTax")
          /\ NumInt(arg.income) = PERSONAL_BRACKETS[k + 1].min)
       => out = TaxOfWholeBrackets(k)

\* the loop has run on the min of the last bracket
C3_Witness ==
  /\ Ran("calculatePersonalTax")
  /\ NumInt(arg.income) = PERSONAL_BRACKETS[Len(PERSONAL_BRACKETS)].min
  /\ out = TaxOfWholeBrackets(Len(PERSONAL_BRACKETS) - 1)

Clamp(x, lo, hi) == IF x < lo THEN lo ELSE IF x > hi THEN hi ELSE x

\* C4: the employee CPP of a salary s is
\* 0.0595 * clamp(s - 3500, 0, 65000) + 0.04 * clamp(s - 68500, 0, 4700): 0 up to
\* 3500, 65000 * 0.0595 at 68500, constant from 73200 on; the employer pays the
\* same.
C4_CPPFormula ==
  Ran("calculateCPPContributions") =>
    LET s == arg.salary
        expected(t) ==
          NumAdd(NumMul(Dec(595, 4), NumInt(Clamp(t - 3500, 0, 65000))),
                 NumMul(Dec(4, 2), NumInt(Clamp(t - 68500, 0, 4700))))
    IN  /\ out.employee = expected(s)
        /\ s <= 3500 => out.employee = Zero
        /\ s = 68500 => out.employee = NumMul(NumInt(68500 - 3500), Dec(595, 4))
        /\ s >= 73200 => out.employee = expected(73200)
        /\ out.employer = out.employee

\* a salary above YAMPE has been charged
C4_Witness ==
  /\ Ran("calculateCPPContributions")
  /\ arg.salary > 73200
  /\ out.employee = Dec(40555, 1)
  /\ out.employer = Dec(40555, 1)

\* C5: for a salary s >= 0 the employee EI is 0.0166 * min(s, 63200), which is
\* >= 0 and is 63200 * 0.0166 from 63200 on; the employer pays 1.4 times that.
C5_EIFormula ==
  (Ran("calculateEIContributions") /\ arg.salary >= 0) =>
    LET s == arg.salary IN
    /\ out.employee = NumMul(Dec(166, 4), NumInt(IF s < 63200 THEN s ELSE 63200))
    /\ NumLe(Zero, out.employee)
    /\ s >= 63200 => out.employee = NumMul(NumInt(63200), Dec(166, 4))
    /\ out.employer = NumMul(Dec(14, 1), out.employee)

\* a salary above the maximum insurable earnings has been charged
C5_Witness ==
  /\ Ran("calculateEIContributions")
  /\ arg.salary > 63200
  /\ out.employee = Dec(104912, 2)

\* C6: for a dividend d >= 0 beside an income o >= 0 the dividend tax is
\* max(tax(o + 1.15 d) - tax(o) - (0.090301 + 0.029863) * 1.15 d, 0), never
\* below 0.
C6_DividendTaxFormula ==
  (Ran("calculateDividendTax") /\ arg.dividend >= 0 /\ arg.otherIncome >= 0) =>
    LET o == NumInt(arg.otherIncome)
        g == NumMul(Dec(115, 2), NumInt(arg.dividend))
        net == NumSub(NumSub(calculatePersonalTax(NumAdd(o, g)),
                             calculatePersonalTax(o)),
                      NumMul(Dec(90301 + 29863, 6), g))
    IN  /\ out.tax = (IF NumLt(net, Zero) THEN Zero ELSE net)
        /\ NumLe(Zero, out.tax)

\* a dividend that crosses a bracket edge above another income has been taxed
C6_Witness ==
  /\ Ran("calculateDividendTax")
  /\ arg.dividend = 44737
  /\ arg.otherIncome = 25000
  /\ NumLt(Zero, out.tax)

\* C7 as stated: the "100% Salary" and the "100% Dividend" row report a
\* totalTax >= 0 and a netIncome <= withdrawalAmount.
C7_NetIncomeAtMostWithdrawal ==
  Answered("tax-calculation") =>
    \A i \in 1..2 :
      /\ NumLe(Zero, CashOf(out.result[i].totalTax))
      /\ NumLe(CashOf(out.result[i].netIncome), Dec(arg.withdrawalTenths, 1))

\* C7, amended: the "100% Salary" and the "100% Dividend" row report a
\* totalTax >= 0 and a netIncome <= withdrawalAmount rounded to the dollar (so
\* netIncome <= withdrawalAmount when that is a whole number).
C7_NetIncomeAtMostRoundedWithdrawal ==
  Answered("tax-calculation") =>
    \A i \in 1..2 :
      /\ out.result[i].strategy = <<"100% Salary", "100% Dividend">>[i]
      /\ NumLe(Zero, CashOf(out.result[i].totalTax))
      /\ NumLe(CashOf(out.result[i].netIncome),
               MathRound(Dec(arg.withdrawalTenths, 1)))
      /\ arg.withdrawalTenths % 10 = 0 =>
           NumLe(CashOf(out.result[i].netIncome), Dec(arg.withdrawalTenths, 1))

\* a withdrawal of 0.6 has been answered with a netIncome of $1
C7_Witness ==
  /\ Answered("tax-calculation")
  /\ arg.withdrawalTenths = 6
  /\ out.result[2].netIncome = <<"$", "1">>

\* C8: revenue 200000, expenses 30 %, withdrawal 100000 gives exactly the four
\* rows 100% Salary, 100% Dividend, 50% Salary / 50% Dividend, Optimal Mix (65%
\* Salary / 35% Dividend), in that order, each with a totalTax > 0.
C8_EndToEnd ==
  (Ran("tax-calculation") /\ arg.revenue = 200000 /\ arg.expensesPercentage = 30
     /\ arg.withdrawalTenths = 1000000 /\ arg.storage.failsAt = "none") =>
    /\ out.status = 200
    /\ Len(out.result) = 4
    /\ out.result[1].strategy = "100% Salary"
    /\ out.result[2].strategy = "100% Dividend"
    /\ out.result[3].strategy = "50% Salary / 50% Dividend"
    /\ out.result[4].strategy = "Optimal Mix (65% Salary / 35% Dividend)"
    /\ \A i \in 1..Len(out.result) : NumLt(Zero, CashOf(out.result[i].totalTax))

\* that request has been answered
C8_Witness ==
  /\ Answered("tax-calculation")
  /\ arg.revenue = 200000 /\ arg.expensesPercentage = 30
  /\ arg.withdrawalTenths = 1000000
  /\ out.result[1].totalTax = <<"$", "3", "9", ",", "3", "0", "3">>
  /\ out.result[2].totalTax = <<"$", "3", "2", ",", "6", "0", "0">>

\* the positions of a response body that hold an available strategy
AvailableEntries(body) ==
  {i \in 1..Len(body) : body[i].finalCashInPocket # <<"Not Available">>}

\* C9: calculateInvestmentStrategies with rrspRoom = 0 returns the RRSP
\* Strategy with initialInvestment, finalValue, totalTaxPaid and
\* finalCashInPocket all "Not Available"; in the calculate-investment
\* response that entry is not ranked (neither optimal nor given a cash
\* delta), comes after every available strategy, and carries the
\* recommendation "Not applicable - No RRSP contribution room available".
C9_NoRoomNotRanked ==
  /\ (Ran("calculateInvestmentStrategies") /\ arg.rrspRoom = 0) =>
       \E i \in 1..Len(out) :
         /\ \A j \in 1..Len(out) : out[j].strategy = "RRSP Strategy" <=> j = i
         /\ out[i].initialInvestment = <<"Not Available">>
         /\ out[i].finalValue = <<"Not Available">>
         /\ out[i].totalTaxPaid = <<"Not Available">>
         /\ out[i].finalCashInPocket = <<"Not Available">>
  /\ (Ran("calculate-investment") /\ arg.rrspRoom = 0 /\ out.status = 200) =>
       \E i \in 1..Len(out.body) :
         /\ \A j \in 1..Len(out.body) :
              out.body[j].strategy = "RRSP Strategy" <=> j = i
         /\ out.body[i].finalCashInPocket = <<"Not Available">>
         /\ out.body[i].recommendation =
              <<"Not applicable - No RRSP contribution room available">>
         /\ \A j \in AvailableEntries(out.body) : j < i

C9_Witness ==
  /\ Ran("calculate-investment")
  /\ arg.rrspRoom = 0 /\ arg.investmentAmount = 100000 /\ arg.years = 10
  /\ out.status = 200
  /\ Len(out.body) = 3
  /\ out.body[1].strategy = "Corporate Investment"
  /\ out.body[2].strategy = "Personal Investment"
  /\ out.body[3].strategy = "RRSP Strategy"
  /\ out.body[3].recommendation =
       <<"Not applicable - No RRSP contribution room available">>

\* the cash delta a recommendation states, after its leading text
StatedDelta(recommendation) ==
  CashOf(SubSeq(recommendation, 2, Len(recommendation) - 1))

\* C10: in every successful calculate-investment response the first
\* available entry has finalCashInPocket >= that of every other available
\* entry, it alone carries the OPTIMAL recommendation, and every other
\* available entry's recommendation states the first entry's cash minus its
\* own cash, which is >= 0.
C10_RankedByCash ==
  (Ran("calculate-investment") /\ out.status = 200) =>
    LET body == out.body
        first == CHOOSE i \in AvailableEntries(body) :
                   \A j \in AvailableEntries(body) : i <= j
        cash(i) == CashOf(body[i].finalCashInPocket)
    IN /\ AvailableEntries(body) # {}
       /\ body[first].recommendation = Optimal
       /\ \A i \in 1..Len(body) : i # first => body[i].recommendation # Optimal
       /\ \A i \in AvailableEntries(body) \ {first} :
            /\ NumLe(cash(i), cash(first))
            /\ Len(body[i].recommendation) > 2
            /\ body[i].recommendation[1] = "Consider optimal strategy - potentially "
            /\ body[i].recommendation[Len(body[i].recommendation)]
                 = " more after-tax cash"
            /\ StatedDelta(body[i].recommendation) = NumSub(cash(first), cash(i))
            /\ NumLe(Zero, StatedDelta(body[i].recommendation))

C10_Witness ==
  /\ Ran("calculate-investment")
  /\ out.status = 200
  /\ AvailableEntries(out.body) = {1, 2, 3}
  /\ out.body[1].strategy = "RRSP Strategy"
  /\ out.body[3].strategy = "Corporate Investment"
  /\ NumLt(Zero, StatedDelta(out.body[2].recommendation))
  /\ NumLt(StatedDelta(out.body[2].recommendation),
           StatedDelta(out.body[3].recommendation))

\* C11: a rate lookup for an income-level label outside the four known ones
\* fails with an invalid-input error; calculateInvestmentStrategies never
\* returns a numeric result computed from a default rate for an unknown
\* currentIncomeLevel or withdrawalIncomeLevel.
C11_NoResultFromDefaultRate ==
  (/\ Ran("calculateInvestmentStrategies")
   /\ \/ arg.currentIncomeLevel \notin
           {"Under $50K", "$50-100K", "$100-200K", "Over $200K"}
      \/ arg.withdrawalIncomeLevel \notin
           {"Under $50K", "$50-100K", "$100-200K", "Over $200K"})
  => \A i \in 1..Len(out) : CashOf(out[i].finalCashInPocket) = NaN

\* a text of the form digits "." digit "%"
IsPercentage(s) ==
  /\ Len(s) >= 4
  /\ s[Len(s)] = "%" /\ s[Len(s) - 2] = "."
  /\ \A i \in (1..Len(s)) \ {Len(s) - 2, Len(s)} : IsDigit(s[i])

\* C12: for every investment vehicle, when the total nominal gains are zero
\* (investmentAmount = 0 or a horizon of 0 years) the effectiveTaxRate is a
\* defined percentage or the not-applicable marker, never the result of a
\* division by zero.
C12_EffectiveRateGuarded ==
  (/\ Ran("calculateInvestmentStrategies")
   /\ (arg.investmentAmount = 0 \/ arg.years = 0))
  => \A i \in 1..Len(out) :
       \/ out[i].effectiveTaxRate = <<"N/A">>
       \/ IsPercentage(out[i].effectiveTaxRate)

\* C13: when the AI service answers calculate-investment with a non-success
\* result, the request still succeeds: status 200 and the three computed
\* strategies, each with a narrative.
C13_AiFailureDegrades ==
  (/\ Ran("calculate-investment")
   /\ arg.validationError = <<>>
   /\ ~arg.aiResponse.success)
  => /\ out.status = 200
     /\ Len(out.body) = 3
     /\ \A i \in 1..3 : out.body[i].description.type = "string"

\* the content is the JSON the prompt of route o asks for: an object whose
\* insights (calculate-investment) or strategies (calculate-expenses) is a
\* list
AskedFor(o, content) ==
  /\ JSONParse(content).ok
  /\ GetProp(JSONParse(content).value,
             IF o = "calculate-investment" THEN "insights" ELSE "strategies").type
       = "array"

\* C14: in calculate-investment and calculate-expenses, content returned
\* with success = true that is not the JSON asked for (no JSON at all, or
\* JSON of another shape) never makes the request fail: the answer has a
\* success status.
C14_MalformedContentTolerated ==
  (/\ pc = "done"
   /\ op \in {"calculate-investment", "calculate-expenses"}
   /\ arg.validationError = <<>>
   /\ arg.aiResponse.success
   /\ ~AskedFor(op, arg.aiResponse.content))
  => out.status = 200

\* C15: in tax-calculation, when storage fails while the prior calculations
\* are counted (getUserByEmail or getCalculationsByUser rejects), the
\* request still answers with success and the four computed rows.
C15_CountingFailureTolerated ==
  (/\ Ran("tax-calculation")
   /\ arg.validationError = <<>>
   /\ arg.storage.failsAt \in {"getUserByEmail", "getCalculationsByUser"})
  => (out.status = 200 /\ Len(out.result) = 4)

\* C16: a request whose body the schema rejects is answered with a 4xx
\* status and a message, never with a 5xx status, in tax-calculation,
\* calculate-expenses and calculate-investment, whatever the text of the
\* validation error.
C16_ValidationFailureIs4xx ==
  (/\ pc = "done"
   /\ op \in {"tax-calculation", "calculate-expenses", "calculate-investment"}
   /\ arg.validationError # <<>>)
  => (out.status >= 400 /\ out.status < 500 /\ out.error # <<>>)

\* the net business income of a request: revenue less its expenses
NetBusinessIncomeOf(body) ==
  NumSub(NumInt(body.revenue),
         NumMul(NumMul(NumInt(body.revenue), NumInt(body.expensesPercentage)),
                Dec(1, 2)))

\* the tax layers of one split, added one by one
SumOfLayers(salary, dividend, netBusinessIncome) ==
  Let(calculateCPPContributions(salary), LAMBDA cpp :
  Let(calculateEIContributions(salary), LAMBDA ei :
  Let(NumMul(MathMax(NumSub(netBusinessIncome,
                            NumAdd(NumAdd(salary, cpp.employer), ei.employer)),
                     Zero),
             Dec(122, 3)), LAMBDA corporate :
    NumAdd(NumAdd(NumAdd(NumAdd(NumAdd(NumAdd(
      calculatePersonalTax(salary),
      calculateDividendTax(dividend, salary).tax),
      cpp.employee), ei.employee), cpp.employer), ei.employer), corporate))))

\* C19: for every split, the totalTax reported is the sum of all layers:
\* personal income tax on the salary + dividend tax + employee CPP +
\* employee EI + employer CPP + employer EI + corporate tax, where the
\* corporate tax is 12.2 % of max(netBusinessIncome - (salary + employer CPP
\* + employer EI), 0).
C19_TotalTaxIsSumOfLayers ==
  Answered("tax-calculation") =>
    \A i \in 1..Len(out.result) :
      out.result[i].totalTax =
        Dollars(MathRound(SumOfLayers(CashOf(out.result[i].salary),
                                      CashOf(out.result[i].dividends),
                                      NetBusinessIncomeOf(arg))))

\* a mixed split with every layer above zero has been answered
C19_Witness ==
  /\ Answered("tax-calculation")
  /\ arg.revenue = 200000 /\ arg.expensesPercentage = 30
  /\ arg.withdrawalTenths = 1000000
  /\ out.result[3].salary = <<"$", "5", "0", ",", "0", "0", "0">>
  /\ out.result[3].dividends = <<"$", "5", "0", ",", "0", "0", "0">>
  /\ NumLt(Zero, CashOf(out.result[3].corporateTax))
  /\ NumLt(Zero, CashOf(out.result[3].cppContributions))
  /\ NumLt(CashOf(out.result[3].corporateTax), CashOf(out.result[3].totalTax))

\* the personal-layer burden of one split: income tax + dividend tax +
\* employee CPP + employee EI
BurdenOf(salary, dividend) ==
  NumAdd(NumAdd(NumAdd(calculatePersonalTax(salary),
                       calculateDividendTax(dividend, salary).tax),
                calculateCPPContributions(salary).employee),
         calculateEIContributions(salary).employee)

\* |x - y| <= d
Within(x, y, d) == NumLe(NumSub(x, y), d) /\ NumLe(NumSub(y, x), d)

\* rate is burden / withdrawal in percent, to one decimal: rate * withdrawal
\* is within 0.05 * withdrawal of 100 * burden
IsRateOf(rate, burden, withdrawal) ==
  Within(NumMul(rate, withdrawal), NumMul(NumInt(100), burden),
         NumMul(Dec(5, 2), withdrawal))

\* C20: calculateSmartSplitStrategy never divides by zero: a split with
\* salary + dividend = 0 reports the effectiveTaxRate 0.0%, and every other
\* split reports (income tax + dividend tax + employee CPP + employee EI) /
\* (salary + dividend) as a percentage.
C20_EffectiveRateGuarded ==
  Answered("tax-calculation") =>
    \A i \in 1..Len(out.result) :
      Let(CashOf(out.result[i].salary), LAMBDA salary :
      Let(CashOf(out.result[i].dividends), LAMBDA dividend :
        /\ IsPercentage(out.result[i].effectiveTaxRate)
        /\ IF NumAdd(salary, dividend) = Zero
           THEN out.result[i].effectiveTaxRate = <<"0", ".", "0", "%">>
           ELSE IsRateOf(ParseFloat(out.result[i].effectiveTaxRate),
                         BurdenOf(salary, dividend),
                         NumAdd(salary, dividend))))

\* a withdrawal of 0.6 has been answered: its 50/50 split rounds to a salary
\* and a dividend of 0 and reports 0.0%, its salary row reports a rate above 0
C20_Witness ==
  /\ Answered("tax-calculation")
  /\ arg.withdrawalTenths = 6
  /\ out.result[3].salary = <<"$", "0">>
  /\ out.result[3].dividends = <<"$", "0">>
  /\ out.result[3].effectiveTaxRate = <<"0", ".", "0", "%">>
  /\ NumLt(Zero, ParseFloat(out.result[1].effectiveTaxRate))

\* the handler in slot has answered
Responded(slot, kind) ==
  requests[slot].pc = "responded" /\ requests[slot].kind = kind

\* C17: requests in flight together are independent: under every
\* interleaving the rows a tax-calculation returns and the strategies a
\* calculate-investment returns are those computed for the same input with
\* no other request running, and TAX_RATES is never changed.
C17_RowsAsInIsolation ==
  /\ taxRates = TAX_RATES
  /\ \A slot \in Slots :
       /\ Responded(slot, "tax-calculation") =>
            requests[slot].response =
              TaxCalculationResponse(
                NumInt(requests[slot].body.revenue),
                NumInt(requests[slot].body.expensesPercentage),
                Dec(requests[slot].body.withdrawalTenths, 1), <<>>, StorageOk)
       /\ Responded(slot, "calculate-investment") =>
            requests[slot].response =
              CalculateInvestmentResponse(InvestmentInput(requests[slot].body),
                                          <<>>, requests[slot].aiResponse)

\* a tax-calculation has answered while another one, on another body, and
\* started before it answered, is still in flight
C17_Witness ==
  \E slot, other \in Slots :
    /\ Responded(slot, "tax-calculation")
    /\ requests[other].kind = "tax-calculation"
    /\ requests[other].pc = "createTaxCalculation"
    /\ requests[other].body.withdrawalTenths # requests[slot].body.withdrawalTenths
    /\ requests[slot].response.status = 200
    /\ Len(requests[slot].response.result) = 4

\* the messages a request has stored, in the order stored
StoredBy(request) == SelectSeq(messages, LAMBDA m : m.by = request)

\* the roles of a sequence of messages
RolesOf(stored) == [i \in 1..Len(stored) |-> stored[i].role]

\* C18: for every analyze-query request on an existing conversation, the user
\* message is stored before aiService.analyzeQuery is called and the assistant
\* message only after it returned; a request answered with success has stored
\* exactly two messages, the user's then the assistant's, and a request whose
\* AI call failed has stored no assistant message.
C18_MessagesInOrder ==
  \A request \in Slots :
    (analyses[request].pc # "idle"
       /\ analyses[request].body.conversationId \in Conversations) =>
      /\ analyses[request].ai # "not called" =>
           /\ StoredBy(request) # <<>>
           /\ StoredBy(request)[1].role = "user"
           /\ StoredBy(request)[1].content = analyses[request].body.content
      /\ analyses[request].ai # "returned" =>
           \A i \in 1..Len(StoredBy(request)) :
             StoredBy(request)[i].role # "assistant"
      /\ (analyses[request].pc = "responded"
            /\ analyses[request].response.status = 200) =>
           /\ RolesOf(StoredBy(request)) = <<"user", "assistant">>
           /\ StoredBy(request)[2].content = analyses[request].analysisResult

\* a request has answered with success while the AI call of another, whose
\* user message is stored between the two messages of the first, has failed
C18_Witness ==
  \E request, other \in Slots :
    /\ analyses[request].pc = "responded"
    /\ analyses[request].response.status = 200
    /\ analyses[other].ai = "failed"
    /\ analyses[other].body.conversationId = 1
    /\ RolesOf(messages) = <<"user", "user", "assistant">>
    /\ messages[1].by = request /\ messages[2].by = other

\* the narrative fields of a strategy
NarrativeFields ==
  {"description", "advantages", "considerations", "bestFor", "craCompliance"}

\* a text with no character, a list with no item, or no value at all
IsEmpty(value) ==
  \/ value.type \in {"undefined", "null"}
  \/ value.type = "string" /\ value.v = ""
  \/ value.type = "array" /\ value.v = <<>>

\* C21: the narrative merge of calculate-investment is a zip-with-default
\* over the three computed strategies: whatever the length of the insights
\* list, the response has exactly three strategies, every narrative field is
\* the one of the insight of the same index where it has one and the fixed
\* default text otherwise, and no narrative field is empty.
C21_NarrativeZipWithDefault ==
  (/\ Ran("calculate-investment")
   /\ arg.validationError = <<>>
   /\ arg.aiResponse.success)
  => /\ out.status = 200
     /\ Len(out.body) = 3
     /\ \A i \in 1..3 : \A name \in NarrativeFields :
          /\ ~IsEmpty(out.body[i][name])
          /\ \E index \in 0..2 :
               Let(GetProp(GetIndex(ParseInsights(RawResponse(arg.aiResponse)),
                                    index), name),
                   LAMBDA given :
                     out.body[i][name] =
                       (IF IsEmpty(given) THEN DefaultInsight[name] ELSE given))

\* C22: when the provider call inside aiService.analyzeQuery fails with an
\* error whose message contains "rate limit", analyze-query answers 429 with
\* the message "Service rate limit exceeded. Please try again in a moment."
C22_RateLimitIs429 ==
  \A request \in Slots :
    (/\ analyses[request].pc = "responded"
     /\ analyses[request].ai = "failed"
     /\ Includes(analyses[request].thrown, "rate limit"))
    => /\ analyses[request].response.status = 429
       /\ analyses[request].response.message =
            <<"Service ", "rate limit", " exceeded. Please try again in a moment.">>

\* C23: under every interleaving of tax-calculation requests of one email,
\* the calculationNumbers stored for it are pairwise distinct and, after n
\* stored calculations, are exactly 1..n.
C23_CalculationNumbersDistinct ==
  /\ \A i, j \in 1..Len(calculations) :
       i # j => calculations[i] # calculations[j]
  /\ {calculations[i] : i \in 1..Len(calculations)} = 1..Len(calculations)

\* C24: after any interleaving of register-user requests at most one user
\* exists per email: a request for an email that has a user returns that
\* user and creates nothing, also when two requests for the same new email
\* run together.
C24_OneUserPerEmail ==
  /\ \A i, j \in 1..Len(users) : i # j => users[i].email # users[j].email
  /\ \A request \in Slots :
       (/\ registrations[request].pc = "responded"
        /\ registrations[request].response.status = 200) =>
         /\ registrations[request].response.user.email = registrations[request].email
         /\ registrations[request].existed =>
              registrations[request].response.user =
                UsersOf(users, registrations[request].email)[1]

\* C25: an analyze-query request answered with an error status for missing
\* fields (400) or a conversation that does not exist (404) leaves storage
\* unchanged: it has stored no message and updated no title.
C25_ErrorLeavesStorageUnchanged ==
  \A request \in Slots :
    (/\ analyses[request].pc = "responded"
     /\ analyses[request].response.status \in {400, 404})
    => /\ StoredBy(request) = <<>>
       /\ (\A other \in Slots \ {request} : analyses[other].pc = "idle")
            => title = <<"New Conversation">>

\* the places of the messages array where the current query of request
\* stands
QueryPlaces(request) ==
  {i \in 1..Len(analyses[request].sent) :
     /\ analyses[request].sent[i].role = "user"
     /\ analyses[request].sent[i].by = request}

\* C26: in the messages analyzeQuery sends to OpenAI the current user query
\* appears exactly once, as the last message, after the system prompt and the
\* prior history.
C26_QuerySentOnce ==
  \A request \in Slots :
    analyses[request].ai # "not called" =>
      /\ analyses[request].sent[1].role = "system"
      /\ QueryPlaces(request) = {Len(analyses[request].sent)}

\* C27: for every integer withdrawalAmount >= 0, in each of the four rows
\* the salary and the dividend passed to calculateSmartSplitStrategy sum to
\* exactly withdrawalAmount.
C27_SplitsSumToWithdrawal ==
  (/\ Answered("tax-calculation")
   /\ arg.withdrawalTenths >= 0
   /\ arg.withdrawalTenths % 10 = 0)
  => \A i \in 1..Len(out.result) :
       NumAdd(CashOf(out.result[i].salary), CashOf(out.result[i].dividends))
         = Dec(arg.withdrawalTenths, 1)

\* C28: a submit that arrives while an earlier submit is in progress, also
\* while its conversation is being created, is ignored: it calls neither
\* createConversation nor /api/analyze-query, so that one typed message leads
\* to at most one call of each.
C28_OverlappingSubmitIgnored ==
  /\ \A n \in Submits :
       submits[n].overlapped => (~submits[n].created /\ ~submits[n].sent)
  /\ \A m, n \in Submits :
       (m # n /\ InProgress(m) /\ InProgress(n)) =>
         submits[m].typed # submits[n].typed

\* the clicks on the button of id before the click-th click
EarlierClicks(click, id) == {i \in 1..(click - 1) : history[i].id = id}

\* C29: a DELETE request for X is issued only by a click on the button of X
\* while deleteConfirm = X; a first click on X, a click when no confirmation
\* is pending and a click on X while another conversation is pending only
\* arm the confirmation and delete nothing.
C29_DeleteOnlyWhenConfirmed ==
  /\ deleteRequests =
       [i \in 1..Len(deleteRequests) |->
          SelectSeq(history, LAMBDA c : c.did = "deleted")[i].id]
  /\ Len(deleteRequests) = Len(SelectSeq(history, LAMBDA c : c.did = "deleted"))
  /\ \A click \in 1..Len(history) :
       /\ history[click].did = "deleted" => history[click].pending = history[click].id
       /\ EarlierClicks(click, history[click].id) = {} => history[click].did = "armed"
       /\ history[click].pending # history[click].id => history[click].did = "armed"

\* a click on one conversation armed it while the other was pending, and a
\* later click deleted
C29_Witness ==
  /\ deleteRequests # <<>>
  /\ \E click \in 1..Len(history) :
       /\ history[click].did = "armed"
       /\ history[click].pending \notin {0, history[click].id}

\* C30: a pending confirmation is cancelled only by the timer of the click
\* that armed it: a timer left over from an earlier click never clears a
\* confirmation armed by a later click.
C30_OnlyOwnTimerCancels ==
  lastCancel # NoCancel => lastCancel.timer = lastCancel.armedBy
====
